---- MODULE Spec2Model ----
(***************************************************************************)
(* Model of the gateway client (backend/api/gateway/client_gemini.py, with *)
(* client_claude.py as its near-duplicate).                                *)
(*                                                                         *)
(* Part 1, ToolChannel: MCPClient's request queue, its correlation map     *)
(* (response_map), the background _process_queue tasks and the callers of  *)
(* process_tool_calls.  The program is single-threaded asyncio: a task is  *)
(* interleaved with the others only where it awaits.  connect_to_server,   *)
(* reconnect and cleanup are one action each; process_tool_calls and       *)
(* _process_queue are cut at the awaits they wait in (the sleep of the     *)
(* polling loop, request_queue.get and call_tool).                         *)
(*                                                                         *)
(* Part 2, ModelGateway: call_gemini_with_fallback with its three tiers    *)
(* and the TokenTracker it reports to.                                     *)
(*                                                                         *)
(* Part 3, StepPlanner: _parse_strategy_steps, line by line.  A line is a   *)
(* sequence of tokens (runs of blanks, runs of digits, punctuation marks,  *)
(* section markers, words); the regular expressions of the parser are      *)
(* operators over such sequences.                                          *)
(*                                                                         *)
(* Part 4, AnalysisOrchestrator: process_query with its casual and help   *)
(* branches and strategic_analysis, cut at the model calls and at the      *)
(* resolution of each tool call of a step.  A model call is one step here  *)
(* (what happens inside it is Part 2), and so is the outcome of one tool   *)
(* request (how it comes about is Part 1).                                 *)
(*                                                                         *)
(* Part 5, SessionQueries: several process_query calls in flight on the    *)
(* one client of a session.  The gateway (backend/api/gateway/app.py)      *)
(* awaits process_query in the handler of each request and holds no lock,  *)
(* so the calls of two requests on one session interleave where they       *)
(* await.                                                                  *)
(*                                                                         *)
(* Part 6, SessionRegistry: the gateway's active_sessions and              *)
(* session_types with the handlers of POST /api/init and DELETE            *)
(* /api/session/{id}, cut at the awaits of cleanup, connect_to_server and  *)
(* list_tools.  Requests run as tasks of one event loop.                   *)
(*                                                                         *)
(* Part 7, QueryEndpoints: the handlers of POST /api/query and GET         *)
(* /api/query-stream with the background task, the progress queue and the  *)
(* relay loop of a stream.  The process_query call a handler awaits is a   *)
(* sequence of model calls here, each of which returns or raises (what     *)
(* happens between them is Part 4).  The client of a stream may go away    *)
(* while the stream runs.                                                  *)
(*                                                                         *)
(* Part 8, TokenTracker: add_usage, reset and get_summary of the tracker   *)
(* of one client, with the token counts Part 2 leaves out.                 *)
(*                                                                         *)
(* Part 9, BigQueryPool: the client pool of the BigQuery MCP server        *)
(* (backend/agents/generic_gbq_mcp_server/server_gbq.py) with the tool     *)
(* calls that take a client from it through BigQueryConnection.            *)
(*                                                                         *)
(* Each part has its own specification; the variables of the other parts   *)
(* keep their initial values in it.                                        *)
(***************************************************************************)
EXTENDS Integers, Sequences, FiniteSets, TLC

\* ---------------------------------------------------------------- bounds
MaxRequests == 2     \* requests ever enqueued on one client
MaxWorkers == 2      \* _process_queue tasks ever created on one client
MaxGatewayCalls == 2 \* call_gemini_with_fallback calls on one client
MaxLines == 3        \* lines of a strategy text
MaxSteps == 2        \* steps of a plan
MaxToolCalls == 2    \* function calls in one model response
MaxCalls == 2        \* process_query calls in flight on one session
MaxSessionRequests == 3 \* init and delete requests the gateway receives
MaxModelCalls == 2   \* model calls of one process_query call of a query request
MaxUsage == 11       \* add_usage calls on one tracker since its last reset
MaxToolTasks == 5    \* tool calls of the BigQuery server that use the pool
max_connections == 2 \* MAX_BQ_CONNECTIONS of the BigQuery server

\* ------------------------------------------------------ program constants
max_retries == 10    \* polls of response_map per request
HistoryLimit == 10   \* entries of the history that manage_context leaves alone
max_consecutive_timeouts == 3 \* timeouts in a row after which a finished stream ends
SummaryEntries == 10 \* entries of the log that get_summary shows

None == "None"
\* self.session is None or a ClientSession.
NoSession == "None"
Session == "ClientSession"
\* self.worker_task = None: tasks are numbered from 1 as they are created.
NoTask == 0
\* request_lock is free (callers are numbered from 1).
Unlocked == 0
NoArgs == [folder_id |-> None, part |-> 0]
NoRequest == [id |-> -1, tool |-> None, args |-> NoArgs]

\* The tasks that run process_tool_calls concurrently on the one client.
Callers == {1, 2}

\* The tool the function calls of a caller's response name: a Drive tool,
\* whose arguments are sanitized, for one caller and another tool for the
\* other.  "" stands for a function call without name.
ToolNames == [c \in Callers |-> IF c = 1 THEN "list_drive_files" ELSE "read_query"]
DriveTools == {"search_drive_files", "list_drive_files", "list_drive_folders"}
\* A JSON null among the arguments of a function call.
JsonNull == "null"
ServerPaths == {"server.py", "server.txt"}

VARIABLES
    \* MCPClient fields
    next_request_id, request_queue, response_map, request_lock, worker_task,
    session, server_path,
    \* the _process_queue tasks ever created, in creation order
    workers,
    \* one process_tool_calls invocation per caller
    caller_pc, pending, idx, retry_count, results,
    \* history: ids in the order their tool call was started, what the
    \* dispatcher published per id, and whether cleanup has returned
    started, published, cleaned,
    \* call_gemini_with_fallback: where the call is, whether tool declarations
    \* were supplied, whether the prompt was built, the exception bound by
    \* "except Exception as primary_error", the attempts made so far, what the
    \* call returned or raised, and the number of calls begun
    gw_pc, gw_tools, gw_prompt, primary_error, gw_attempts, gw_outcome, gw_calls,
    \* TokenTracker, and the length its log had when the current call began
    api_calls, token_log, log_at_call,
    \* _parse_strategy_steps: where the parser is, its argument split into
    \* lines, the line the loop is at, and its locals
    parse_pc, lines, line_no, steps, current_step,
    in_parameters, in_information, in_contribution,
    \* process_query and strategic_analysis: where the run is, the history of
    \* the conversation, the classification text, len(steps), the index i of
    \* the step loop, the model calls of the
    \* run and whether one of them raised, the phases the run entered, the
    \* outcome of each tool request of the current step, execution_context as
    \* the list of the texts added to it, the number of tool requests the run
    \* enqueued, and what process_query returned or raised
    o_pc, conversation_history, classification, total_steps,
    step_index, model_calls, model_failed, phases, step_results,
    execution_context, tool_requests, o_outcome

chanVars ==
    <<next_request_id, request_queue, response_map, request_lock, worker_task,
      session, server_path, workers, caller_pc, pending, idx, retry_count, results,
      started, published, cleaned>>

gwVars ==
    <<gw_pc, gw_tools, gw_prompt, primary_error, gw_attempts, gw_outcome,
      gw_calls, api_calls, token_log, log_at_call>>

parseVars ==
    <<parse_pc, lines, line_no, steps, current_step,
      in_parameters, in_information, in_contribution>>

orchVars ==
    <<o_pc, conversation_history, classification, total_steps,
      step_index, model_calls, model_failed, phases, step_results,
      execution_context, tool_requests, o_outcome>>

\* The process_query calls of Part 5: where each is, the query it was given
\* and the text it returned.
VARIABLES q_pc, q_query, q_reply

callVars == <<q_pc, q_query, q_reply>>

\* The gateway's registry of Part 6, the clients it ever created, and per
\* request: where the handler is, what was asked, the client whose cleanup
\* or connect it awaits, how that cleanup ended and what was answered.
VARIABLES active_sessions, session_types, clients,
          r_pc, r_kind, r_session, r_type, r_client, r_cleanup, r_response

regVars ==
    <<active_sessions, session_types, clients,
      r_pc, r_kind, r_session, r_type, r_client, r_cleanup, r_response>>

\* The query requests of Part 7.  Per request: where the handler is, what
\* was asked and answered, the process_query call it awaits (for a stream:
\* process_task) with the model calls and progress reports it made, the
\* locals of event_generator, and the events the stream has relayed,
\* keepalives left out.  progress_callback is the callback of the client.
VARIABLES e_pc, e_kind, e_session, e_response, process_task, calls_made,
          pending_puts, progress_queue, processing_complete,
          final_response_sent, consecutive_timeouts, relayed,
          progress_callback

queryVars ==
    <<e_pc, e_kind, e_session, e_response, process_task, calls_made,
      pending_puts, progress_queue, processing_complete,
      final_response_sent, consecutive_timeouts, relayed, progress_callback>>

\* The tracker of Part 8, the arguments of the add_usage calls since its
\* last reset, and what get_summary returned last (<<>> before that).
VARIABLES token_tracker, usage_calls, summary

trackerVars == <<token_tracker, usage_calls, summary>>

\* The pool of Part 9: its queue of clients, its counter, the clients ever
\* constructed, and per tool call where it is and the client it holds.
VARIABLES pool_clients, active_clients, constructed, t_pc, t_client

poolVars == <<pool_clients, active_clients, constructed, t_pc, t_client>>

\* The keepalive events a stream emitted after the event it relayed last.
VARIABLES keepalives

keepVars == <<keepalives>>

auxVars == <<trackerVars, poolVars, keepVars>>

apiVars == <<callVars, regVars, queryVars, auxVars>>

vars == <<chanVars, gwVars, parseVars, orchVars, apiVars>>

\* ------------------------------------------------------------- helpers

\* _sanitize_tool_args: a null folder_id becomes "" for the drive tools.
SanitizeToolArgs(tool_name, tool_args) ==
    IF tool_name \in DriveTools /\ tool_args.folder_id = JsonNull
    THEN [tool_args EXCEPT !.folder_id = ""]
    ELSE tool_args

\* Variant: every request is filed under one id.
RequestIdShared(n) == 0

\* request_id = f"{self.next_request_id}"
RequestId(n) == n

\* Variant: the counter is not advanced.
NextRequestIdSame(n) == n

\* self.next_request_id += 1
NextRequestId(n) == n + 1

\* What the tool process answers to call_tool(name, args): its content is
\* determined by the call it was given.
ToolReply(tool_name, tool_args) == [tool |-> tool_name, args |-> tool_args]

NoReply == [tool |-> None, args |-> NoArgs]

\* d is a running _process_queue loop: it waits for a request or for the
\* tool.  A loop that was cancelled or that an exception ended is not.
Alive(d) == workers[d].pc \in {"idle", "calling"}

Dispatchers == DOMAIN workers

EmptyMap == [x \in {} |-> x]

\* Remove key k from the function f (dict.pop).
Pop(f, k) == [x \in DOMAIN f \ {k} |-> f[x]]

Put(f, k, v) == [x \in DOMAIN f \cup {k} |-> IF x = k THEN v ELSE f[x]]

\* ---------------------------------------------------------------- Init
ChanInit ==
    /\ next_request_id = 0
    /\ request_queue = <<>>
    /\ response_map = EmptyMap
    /\ request_lock = Unlocked
    /\ worker_task = NoTask
    /\ session = NoSession
    /\ server_path = None
    /\ workers = <<>>
    /\ caller_pc = [c \in Callers |-> "idle"]
    /\ pending = [c \in Callers |-> <<>>]
    /\ idx = [c \in Callers |-> 1]
    /\ retry_count = [c \in Callers |-> 0]
    /\ results = [c \in Callers |-> <<>>]
    /\ started = <<>>
    /\ published = EmptyMap
    /\ cleaned = FALSE

\* MCPClient.__init__ and TokenTracker.__init__; no call is in progress.
GatewayInit ==
    /\ gw_pc = "idle"
    /\ gw_tools = FALSE
    /\ gw_prompt = FALSE
    /\ primary_error = None
    /\ gw_attempts = <<>>
    /\ gw_outcome = [kind |-> None, value |-> None]
    /\ gw_calls = 0
    /\ api_calls = 0
    /\ token_log = <<>>
    /\ log_at_call = 0

\* current_step = None
NoStep == [number |-> -1, description |-> <<>>, parameters |-> <<>>,
           information_obtained |-> <<>>, contribution |-> <<>>, tool |-> None]

\* No text is being parsed.
ParseInit ==
    /\ parse_pc = "idle"
    /\ lines = <<>>
    /\ line_no = 0
    /\ steps = <<>>
    /\ current_step = NoStep
    /\ in_parameters = FALSE
    /\ in_information = FALSE
    /\ in_contribution = FALSE

\* An entry of conversation_history.
Message(role, content) == [role |-> role, content |-> content]

\* The history after n earlier queries that were answered.
RECURSIVE Turns(_)
Turns(n) ==
    IF n = 0 THEN <<>>
    ELSE Turns(n - 1) \o <<Message("user", "query"), Message("assistant", "reply")>>

\* The locals of a run before it starts.
RunReset ==
    /\ classification' = <<>>
    /\ total_steps' = 0
    /\ step_index' = 0
    /\ model_calls' = 0
    /\ model_failed' = FALSE
    /\ phases' = <<>>
    /\ step_results' = <<>>
    /\ execution_context' = <<>>
    /\ tool_requests' = 0

\* A client that answered no query yet.
OrchInit ==
    /\ o_pc = "idle"
    /\ conversation_history = <<>>
    /\ classification = <<>>
    /\ total_steps = 0
    /\ step_index = 0
    /\ model_calls = 0
    /\ model_failed = FALSE
    /\ phases = <<>>
    /\ step_results = <<>>
    /\ execution_context = <<>>
    /\ tool_requests = 0
    /\ o_outcome = [kind |-> None, value |-> None]

\* The calls a session may see, none of them made yet.
Calls == 1..MaxCalls

CallsInit ==
    /\ q_pc = [c \in Calls |-> "idle"]
    /\ q_query = [c \in Calls |-> None]
    /\ q_reply = [c \in Calls |-> None]

SessionRequests == 1..MaxSessionRequests

\* The gateway after import: both maps empty, no request received.
RegistryInit ==
    /\ active_sessions = << >>
    /\ session_types = << >>
    /\ clients = <<>>
    /\ r_pc = [r \in SessionRequests |-> "idle"]
    /\ r_kind = [r \in SessionRequests |-> None]
    /\ r_session = [r \in SessionRequests |-> None]
    /\ r_type = [r \in SessionRequests |-> None]
    /\ r_client = [r \in SessionRequests |-> 0]
    /\ r_cleanup = [r \in SessionRequests |-> None]
    /\ r_response = [r \in SessionRequests |-> None]

\* The query requests the gateway receives.
Queries == {1, 2}

\* A relay loop is followed through the timeouts in a row at which it can
\* stop; further timeouts of a stream whose task runs repeat the keepalive.
MaxTimeouts == max_consecutive_timeouts

\* The client has no _progress_callback attribute (requests are numbered
\* from 1).
NoCallback == 0

\* No query request received yet; the client has no callback.
QueryInit ==
    /\ e_pc = [q \in Queries |-> "idle"]
    /\ e_kind = [q \in Queries |-> None]
    /\ e_session = [q \in Queries |-> None]
    /\ e_response = [q \in Queries |-> [status |-> None, message |-> None]]
    /\ process_task = [q \in Queries |-> "none"]
    /\ calls_made = [q \in Queries |-> 0]
    /\ pending_puts = [q \in Queries |-> <<>>]
    /\ progress_queue = [q \in Queries |-> <<>>]
    /\ processing_complete = [q \in Queries |-> FALSE]
    /\ final_response_sent = [q \in Queries |-> FALSE]
    /\ consecutive_timeouts = [q \in Queries |-> 0]
    /\ relayed = [q \in Queries |-> <<>>]
    /\ keepalives = [q \in Queries |-> <<>>]
    /\ progress_callback = NoCallback

\* TokenTracker.__init__ (costs are left out).
NewTracker ==
    [total_input_tokens |-> 0, total_output_tokens |-> 0, api_calls |-> 0,
     token_log |-> <<>>,
     last_call_tokens |-> [input |-> 0, output |-> 0, total |-> 0]]

TrackerInit ==
    /\ token_tracker = NewTracker
    /\ usage_calls = <<>>
    /\ summary = <<>>

\* The tool calls of the BigQuery server.
ToolTasks == 1..MaxToolTasks

\* t_client of a tool call that holds no client (clients are numbered from 1).
NoClient == 0

\* The pool after pool.initialize(): max_connections clients constructed
\* and queued, active_clients still 0.
PoolInit ==
    /\ pool_clients = [i \in 1..max_connections |-> i]
    /\ active_clients = 0
    /\ constructed = max_connections
    /\ t_pc = [t \in ToolTasks |-> "idle"]
    /\ t_client = [t \in ToolTasks |-> NoClient]

Init ==
    /\ ChanInit /\ GatewayInit /\ ParseInit /\ OrchInit
    /\ CallsInit /\ RegistryInit /\ QueryInit
    /\ TrackerInit /\ PoolInit

\* ------------------------------------------- connect / reconnect / cleanup

\* A server script must be a .py or .js file.
ValidPath(path) == path \in {"server.py", "server.js"}

\* The worker tasks after asyncio.create_task(self._process_queue()).
SpawnWorker(ws) == Append(ws, [pc |-> "idle", cur |-> NoRequest])

\* connect_to_server(path): the path is stored; a path that is neither .py
\* nor .js raises at once.  Then the transport and the session are entered
\* and initialize() and list_tools() are awaited; each may raise, the first
\* before self.session is assigned.  Last, the worker task is created and
\* kept in self.worker_task, whatever that held before.
Connect(path, sess) ==
    /\ server_path' = path
    /\ cleaned' = FALSE
    /\ IF ~ValidPath(path)
       THEN /\ session' = sess
            /\ UNCHANGED <<workers, worker_task>>
       ELSE \E outcome \in {"transport_error", "session_error", "ok"} :
              CASE outcome = "transport_error" ->
                     /\ session' = sess
                     /\ UNCHANGED <<workers, worker_task>>
                [] outcome = "session_error" ->
                     /\ session' = Session
                     /\ UNCHANGED <<workers, worker_task>>
                [] outcome = "ok" ->
                     /\ session' = Session
                     /\ workers' = SpawnWorker(workers)
                     /\ worker_task' = Len(workers) + 1

ConnectToServer ==
    /\ Len(workers) < MaxWorkers
    /\ \E path \in ServerPaths : Connect(path, session)
    /\ UNCHANGED <<next_request_id, request_queue, response_map, request_lock,
                   caller_pc, pending, idx, retry_count, results, started,
                   published>>
    /\ UNCHANGED <<gwVars, parseVars, orchVars, apiVars>>

\* reconnect: needs a stored path; drops the exit stack and the session and
\* connects again.  The running _process_queue task is left as it is.
Reconnect ==
    /\ Len(workers) < MaxWorkers
    /\ server_path # None
    /\ Connect(server_path, NoSession)
    /\ UNCHANGED <<next_request_id, request_queue, response_map, request_lock,
                   caller_pc, pending, idx, retry_count, results, started,
                   published>>
    /\ UNCHANGED <<gwVars, parseVars, orchVars, apiVars>>

\* The workers after cleanup cancelled worker_task and awaited it: the task
\* leaves its loop at the await it is suspended in (CancelledError is not an
\* Exception), without publishing anything for the request it holds.
CancelWorker(ws, w) ==
    IF w = NoTask THEN ws
    ELSE [ws EXCEPT ![w] = [pc |-> "cancelled", cur |-> NoRequest]]

\* cleanup: self.worker_task is cancelled and awaited, the exit stack is
\* closed and the session dropped.
Cleanup ==
    /\ workers' = CancelWorker(workers, worker_task)
    /\ session' = NoSession
    /\ cleaned' = TRUE
    /\ UNCHANGED <<next_request_id, request_queue, response_map, request_lock,
                   worker_task, server_path, caller_pc, pending, idx,
                   retry_count, results, started, published>>
    /\ UNCHANGED <<gwVars, parseVars, orchVars, apiVars>>

\* ------------------------------------------------------ _process_queue

\* error_msg = f"Error executing {tool_name}: {str(e)}", whatever e is: an
\* exception of the call or the TimeoutError of wait_for.
ErrorMsg(tool_name, e) == [text |-> "Error executing", tool |-> tool_name]

NoError == [text |-> None, tool |-> None]

\* The entry the dispatcher stores in response_map.
Response(ok, err, req, reply) ==
    [success |-> ok, error |-> err, tool |-> req.tool, args |-> req.args,
     result |-> reply]

\* Variant: the newest request is taken first.
QueueGetNewest(q) == Len(q)

\* The place in the queue of the request the loop takes next:
\* asyncio.Queue.get returns the oldest.
QueueGet(q) == 1

\* The queue without its i-th request.
Without(q, i) == SubSeq(q, 1, i - 1) \o SubSeq(q, i + 1, Len(q))

\* Variant: the exception leaves the loop.
AfterFailureExit == "exited"

\* The loop after a call failed or timed out: the error is stored and the
\* loop goes back to request_queue.get().
AfterFailure == "idle"

\* One turn of the loop up to its await of call_tool: the oldest request is
\* taken and its arguments sanitized.  Without a session the call raises at
\* once (AttributeError) and the failure is published in the same turn.
DispatchGet(d) ==
    /\ d \in Dispatchers
    /\ workers[d].pc = "idle"
    /\ request_queue # <<>>
    /\ LET got == request_queue[QueueGet(request_queue)]
           req == [got EXCEPT !.args = SanitizeToolArgs(got.tool, got.args)]
       IN /\ request_queue' = Without(request_queue, QueueGet(request_queue))
          /\ started' = Append(started, req.id)
          /\ IF session = NoSession
             THEN /\ response_map' =
                        Put(response_map, req.id,
                            Response(FALSE, ErrorMsg(req.tool, "error"), req, NoReply))
                  /\ published' = Put(published, req.id, "failed")
                  /\ workers' = [workers EXCEPT ![d].pc = AfterFailure]
             ELSE /\ workers' = [workers EXCEPT ![d] = [pc |-> "calling", cur |-> req]]
                  /\ UNCHANGED <<response_map, published>>
    /\ UNCHANGED <<next_request_id, request_lock, worker_task, session,
                   server_path, caller_pc, pending, idx, retry_count, results, cleaned>>
    /\ UNCHANGED <<gwVars, parseVars, orchVars, apiVars>>

\* The await of wait_for(call_tool, 60.0) ends: with the tool's reply, with
\* an exception of the call, or with the timeout.  The outcome is stored
\* under the request's id and the loop takes its next turn.
DispatchDone(d) ==
    /\ d \in Dispatchers
    /\ workers[d].pc = "calling"
    /\ LET req == workers[d].cur IN
       \E outcome \in {"ok", "error", "timeout"} :
          /\ response_map' =
                Put(response_map, req.id,
                    IF outcome = "ok"
                    THEN Response(TRUE, NoError, req, ToolReply(req.tool, req.args))
                    ELSE Response(FALSE, ErrorMsg(req.tool, outcome), req, NoReply))
          /\ published' =
                Put(published, req.id, IF outcome = "ok" THEN "ok" ELSE "failed")
          /\ workers' = [workers EXCEPT
                           ![d] = [pc |-> IF outcome = "ok" THEN "idle" ELSE AfterFailure,
                                   cur |-> NoRequest]]
    /\ UNCHANGED <<next_request_id, request_queue, request_lock, worker_task,
                   session, server_path, caller_pc, pending, idx, retry_count,
                   results, started, cleaned>>
    /\ UNCHANGED <<gwVars, parseVars, orchVars, apiVars>>

\* ---------------------------------------------------- process_tool_calls

\* The result appended for a request whose entry was found in response_map.
ResultOf(req, response) ==
    [tool |-> req.tool, args |-> req.args, success |-> response.success,
     result |-> response.result, error |-> response.error,
     result_type |-> IF response.success THEN "success" ELSE "error"]

\* The result appended when the polls are used up: "Request timed out".
TimedOut(req) ==
    [tool |-> req.tool, args |-> req.args, success |-> FALSE,
     result |-> NoReply, error |-> [text |-> "Request timed out", tool |-> None],
     result_type |-> "timeout"]

\* The function calls the response handed to caller c may carry: up to n of
\* them, each with or without a name.  One with a name has a null folder_id
\* and tells which of the named calls of the response it is.
FunctionCalls(c, n) ==
    UNION {{[i \in 1..k |->
               IF named[i]
               THEN [name |-> ToolNames[c],
                     args |-> [folder_id |-> JsonNull,
                               part |-> Cardinality({j \in 1..i : named[j]})]]
               ELSE [name |-> "", args |-> NoArgs]] :
            named \in [1..k -> BOOLEAN]} :
           k \in 0..n}

\* The loop under request_lock over the function calls from position i on: a
\* call without a name is skipped, any other gets the next request id, is
\* put on the queue and is remembered in pending_requests.  st holds
\* next_request_id, request_queue and pending_requests so far.
RECURSIVE EnqueueAll(_, _, _)
EnqueueAll(function_calls, i, st) ==
    IF i > Len(function_calls) THEN st
    ELSE LET call == function_calls[i]
             req == [id |-> RequestId(st.next_request_id), tool |-> call.name,
                     args |-> call.args]
         IN IF call.name = ""
            THEN EnqueueAll(function_calls, i + 1, st)
            ELSE EnqueueAll(function_calls, i + 1,
                    [next_request_id |-> NextRequestId(st.next_request_id),
                     request_queue |-> Append(st.request_queue, req),
                     pending_requests |-> Append(st.pending_requests, req)])

\* process_tool_calls up to its first sleep.  Nothing in it suspends the
\* task: request_lock is free whenever a task gets to run (it is released
\* before the first sleep), and put on the unbounded queue returns at once.
\* So the lock is taken, every call enqueued and the lock released in one
\* step.  Without function calls, or with none that has a name, the call
\* returns no results.
ProcessToolCalls(c) ==
    /\ caller_pc[c] = "idle"
    /\ request_lock = Unlocked
    /\ \E function_calls \in FunctionCalls(c, MaxRequests - next_request_id) :
         LET st == EnqueueAll(function_calls, 1,
                      [next_request_id |-> next_request_id,
                       request_queue |-> request_queue,
                       pending_requests |-> <<>>])
         IN /\ next_request_id' = st.next_request_id
            /\ request_queue' = st.request_queue
            /\ pending' = [pending EXCEPT ![c] = st.pending_requests]
            /\ caller_pc' = [caller_pc EXCEPT
                  ![c] = IF st.pending_requests = <<>> THEN "done" ELSE "poll"]
    /\ UNCHANGED <<response_map, request_lock, worker_task, session,
                   server_path, workers, idx,
                   retry_count, results, started, published, cleaned>>
    /\ UNCHANGED <<gwVars, parseVars, orchVars, apiVars>>

\* Variant: the caller polls without a limit.
GiveUpNever(n) == FALSE

\* The caller gives up on a request when its polls are used up.
GiveUp(n) == n >= max_retries

\* retry_count after the sleeps of the polling loop.  The sleeps left to a
\* caller are taken as one step: a step of another task between two of them
\* is one before the first or after the last, and an entry published
\* meanwhile is found by the look at response_map that follows.
AfterSleeps(n) == max_retries

\* One look at response_map for the request the caller waits for: the entry
\* is popped and turned into a result; or the caller sleeps and retries; or,
\* its polls used up, it records a timeout.  After the last request
\* process_tool_calls returns.
Poll(c) ==
    /\ caller_pc[c] = "poll"
    /\ LET req == pending[c][idx[c]]
           resolved(res) ==
               /\ results' = [results EXCEPT ![c] = Append(@, res)]
               /\ idx' = [idx EXCEPT ![c] = @ + 1]
               /\ retry_count' = [retry_count EXCEPT ![c] = 0]
               /\ caller_pc' = [caller_pc EXCEPT
                     ![c] = IF idx[c] = Len(pending[c]) THEN "done" ELSE "poll"]
       IN IF req.id \in DOMAIN response_map
          THEN /\ response_map' = Pop(response_map, req.id)
               /\ resolved(ResultOf(req, response_map[req.id]))
          ELSE /\ UNCHANGED response_map
               /\ IF GiveUp(retry_count[c])
                  THEN resolved(TimedOut(req))
                  ELSE /\ retry_count' = [retry_count EXCEPT ![c] = AfterSleeps(@)]
                       /\ UNCHANGED <<results, idx, caller_pc>>
    /\ UNCHANGED <<next_request_id, request_queue, request_lock, worker_task,
                   session, server_path, workers, pending, started, published,
                   cleaned>>
    /\ UNCHANGED <<gwVars, parseVars, orchVars, apiVars>>

\* ------------------------------------------- call_gemini_with_fallback

\* self.model_name and self.fallback_model
model_name == "gemini-2.5-flash"
fallback_model == "gemini-1.5-flash"

\* What a provider request, or the code around it, may raise.
Errors == {"ServerError", "ClientError", "ValueError"}

\* Variant: every entry is tagged as a primary call.
UsageDescriptionPrimary(tier) == "Primary API Call"

\* The description a tier passes to add_usage when its request succeeded.
UsageDescription(tier) ==
    CASE tier = "primary" -> "Primary API Call"
      [] tier = "fallback" -> "Fallback API Call"
      [] tier = "no_tools" -> "Fallback without tools"

\* TokenTracker.add_usage: one more call, one more entry in the log.
AddUsage(description) ==
    /\ api_calls' = api_calls + 1
    /\ token_log' = Append(token_log, [description |-> description])

\* One attempt of a call: its tier, the model and whether tool declarations
\* went with the request, whether a request reached the provider at all, and
\* the exception the attempt ended in.
Attempt(tier, model, with_tools, requested, error) ==
    [tier |-> tier, model |-> model, tools |-> with_tools,
     requested |-> requested, error |-> error]

\* What "contents=prompt" raises when the primary attempt failed before the
\* prompt was assigned.
UnboundPrompt == "UnboundLocalError"

\* The outcomes of an attempt after the primary one: without a prompt it
\* fails before any request; with one the request succeeds or raises.
LaterOutcomes == IF gw_prompt THEN {"ok"} \cup Errors ELSE {UnboundPrompt}

\* Variant: the attempt without tools is made for every call.
ThirdAttemptAlways(tools) == TRUE

\* "if tools": whether a third attempt follows the failed fallback attempt.
ThirdAttempt(tools) == tools

\* Variant: the exception of the last attempt is raised.
RaisedErrorLast(attempts, primary) == attempts[Len(attempts)].error

\* The exception the call raises when every attempt has failed.
RaisedError(attempts, primary) == primary

\* The call ends by raising.
Raise(attempts) ==
    /\ gw_pc' = "raised"
    /\ gw_outcome' = [kind |-> "raised", value |-> RaisedError(attempts, primary_error')]

\* The call ends by returning the response of a tier.
Return(tier) ==
    /\ gw_pc' = "returned"
    /\ gw_outcome' = [kind |-> "returned", value |-> tier]

\* A call begins, with or without tool declarations.
GatewayCall ==
    /\ gw_pc \in {"idle", "returned", "raised"}
    /\ gw_calls < MaxGatewayCalls
    /\ gw_calls' = gw_calls + 1
    /\ gw_pc' = "primary"
    /\ gw_tools' \in BOOLEAN
    /\ gw_prompt' = FALSE
    /\ primary_error' = None
    /\ gw_attempts' = <<>>
    /\ gw_outcome' = [kind |-> None, value |-> None]
    /\ log_at_call' = Len(token_log)
    /\ UNCHANGED <<api_calls, token_log>>
    /\ UNCHANGED <<chanVars, parseVars, orchVars, apiVars>>

\* The primary attempt: the messages are converted and the prompt is built,
\* the request goes to model_name with the tool declarations, the usage is
\* recorded and the response returned.  An exception anywhere in it, before
\* the prompt is built or in the request, is bound to primary_error.
PrimaryAttempt ==
    /\ gw_pc = "primary"
    /\ \E outcome \in {"ok"} \cup Errors, built \in BOOLEAN :
         /\ built \/ outcome # "ok"
         /\ gw_prompt' = built
         /\ gw_attempts' =
                Append(gw_attempts,
                       Attempt("primary", model_name, gw_tools, built,
                               IF outcome = "ok" THEN None ELSE outcome))
         /\ IF outcome = "ok"
            THEN /\ AddUsage(UsageDescription("primary"))
                 /\ Return("primary")
                 /\ UNCHANGED primary_error
            ELSE /\ primary_error' = outcome
                 /\ gw_pc' = "fallback"
                 /\ UNCHANGED <<gw_outcome, api_calls, token_log>>
    /\ UNCHANGED <<gw_tools, gw_calls, log_at_call>>
    /\ UNCHANGED <<chanVars, parseVars, orchVars, apiVars>>

\* The second attempt: the request goes to fallback_model with a
\* configuration that carries no tool declarations.  When it fails, the
\* third attempt follows if tool declarations were supplied; else
\* primary_error is raised.
FallbackAttempt ==
    /\ gw_pc = "fallback"
    /\ \E outcome \in LaterOutcomes :
         LET attempts ==
                 Append(gw_attempts,
                        Attempt("fallback", fallback_model, FALSE, gw_prompt,
                                IF outcome = "ok" THEN None ELSE outcome))
         IN /\ gw_attempts' = attempts
            /\ UNCHANGED primary_error
            /\ IF outcome = "ok"
               THEN /\ AddUsage(UsageDescription("fallback"))
                    /\ Return("fallback")
               ELSE /\ UNCHANGED <<api_calls, token_log>>
                    /\ IF ThirdAttempt(gw_tools)
                       THEN /\ gw_pc' = "no_tools"
                            /\ UNCHANGED gw_outcome
                       ELSE Raise(attempts)
    /\ UNCHANGED <<gw_tools, gw_prompt, gw_calls, log_at_call>>
    /\ UNCHANGED <<chanVars, parseVars, orchVars, apiVars>>

\* The third attempt, made only when tool declarations were supplied: the
\* request goes to model_name without them.  When it fails too,
\* primary_error is raised.
NoToolsAttempt ==
    /\ gw_pc = "no_tools"
    /\ \E outcome \in LaterOutcomes :
         LET attempts ==
                 Append(gw_attempts,
                        Attempt("no_tools", model_name, FALSE, gw_prompt,
                                IF outcome = "ok" THEN None ELSE outcome))
         IN /\ gw_attempts' = attempts
            /\ UNCHANGED primary_error
            /\ IF outcome = "ok"
               THEN /\ AddUsage(UsageDescription("no_tools"))
                    /\ Return("no_tools")
               ELSE /\ UNCHANGED <<api_calls, token_log>>
                    /\ Raise(attempts)
    /\ UNCHANGED <<gw_tools, gw_prompt, gw_calls, log_at_call>>
    /\ UNCHANGED <<chanVars, parseVars, orchVars, apiVars>>

\* ------------------------------------------------ _parse_strategy_steps

\* A run of blanks: one blank, or more than one.
IsSpace(t) == t \in {" ", "  "}

\* A run of more than 4300 digits, on which int() raises ValueError.
LongNumeral == "9..(4301 digits)..9"

\* \d+ : a run of digits.
IsDigits(t) == t \in {"1", "2", "3", "4", "10", LongNumeral}

\* int(step_match.group(1))
IntOf(t) ==
    CASE t = "1" -> 1 [] t = "2" -> 2 [] t = "3" -> 3 [] t = "4" -> 4
      [] t = "10" -> 10

\* [\w_]+ : the tokens made of word characters only.
Words ==
    {"Use", "use", "the", "tool", "function", "call", "Call", "execute",
     "list_tables", "read_query", "describe_table", "to", "enumerate",
     "schema", "fetch", "rows", "Summarize", "findings", "Then", "table",
     "orders"}

IsWord(t) == t \in Words \/ IsDigits(t)

\* str.strip(), on the blanks at both ends.
RECURSIVE Strip(_)
Strip(ts) ==
    IF ts = <<>> THEN ts
    ELSE IF IsSpace(Head(ts)) THEN Strip(Tail(ts))
    ELSE IF IsSpace(ts[Len(ts)]) THEN Strip(SubSeq(ts, 1, Len(ts) - 1))
    ELSE ts

\* str.replace(mark, ""), for a punctuation mark.
RECURSIVE Remove(_, _)
Remove(ts, mark) ==
    IF ts = <<>> THEN ts
    ELSE IF Head(ts) = mark THEN Remove(Tail(ts), mark)
    ELSE <<Head(ts)>> \o Remove(Tail(ts), mark)

\* if s.startswith("-"): s = s[1:].strip()
DropDash(ts) == IF ts # <<>> /\ Head(ts) = "-" THEN Strip(Tail(ts)) ELSE ts

\* Where the digits of a numbered line stand: after the optional blanks.
DigitsAt(line) == IF line # <<>> /\ IsSpace(line[1]) THEN 2 ELSE 1

\* re.match(r"^\s*(\d+)\.\s+(.*)", line)
StepMatch(line) ==
    LET i == DigitsAt(line)
    IN /\ Len(line) >= i + 2
       /\ IsDigits(line[i])
       /\ line[i + 1] = "."
       /\ IsSpace(line[i + 2])

\* step_match.group(1)
StepNumeral(line) == line[DigitsAt(line)]

\* step_match.group(2).strip()
StepDescription(line) == Strip(SubSeq(line, DigitsAt(line) + 3, Len(line)))

\* re.search finds the leftmost match: the least of the positions at which
\* a pattern matches, 0 if there is none.
FirstMatch(at) ==
    IF at = {} THEN 0 ELSE CHOOSE i \in at : \A j \in at : i <= j

\* "Use " followed by a word: the place of "Use" (the pattern is matched
\* with the case as written).
UseAt(d, i) ==
    /\ d[i] = "Use"
    /\ Len(d) >= i + 2
    /\ d[i + 1] = " "
    /\ IsWord(d[i + 2])

\* Variant: the pattern without its optional "the ".
MatchUseNoThe(d) ==
    LET i == FirstMatch({i \in 1..Len(d) : UseAt(d, i)})
    IN IF i = 0 THEN None ELSE d[i + 2]

\* re.search(r"Use (?:the )?([\w_]+)", description): the word captured, None
\* without a match.  "the " is skipped when a word follows it after one
\* blank.
MatchUse(d) ==
    LET i == FirstMatch({i \in 1..Len(d) : UseAt(d, i)})
    IN IF i = 0 THEN None
       ELSE IF /\ d[i + 2] = "the"
               /\ Len(d) >= i + 4
               /\ d[i + 3] = " "
               /\ IsWord(d[i + 4])
            THEN d[i + 4]
            ELSE d[i + 2]

\* A word, one blank and a token that begins with the keyword, whatever the
\* case: r"([\w_]+) tool" and r"([\w_]+) function".
WordBefore(d, i, keywords) ==
    /\ IsWord(d[i])
    /\ Len(d) >= i + 2
    /\ d[i + 1] = " "
    /\ d[i + 2] \in keywords

ToolAt(d, i) == WordBefore(d, i, {"tool"})

FunctionAt(d, i) == WordBefore(d, i, {"function"})

\* A token that ends with the keyword, whatever the case, one blank and a
\* word: r"call ([\w_]+)" and r"execute ([\w_]+)".
WordAfter(d, i, keywords) ==
    /\ d[i] \in keywords
    /\ Len(d) >= i + 2
    /\ d[i + 1] = " "
    /\ IsWord(d[i + 2])

CallAt(d, i) == WordAfter(d, i, {"call", "Call"})

ExecuteAt(d, i) == WordAfter(d, i, {"execute"})

\* The loop over tool_patterns, for a description the first pattern did not
\* match: the capture of the first of the four that matches.
MatchToolPatterns(d) ==
    LET t == FirstMatch({i \in 1..Len(d) : ToolAt(d, i)})
        f == FirstMatch({i \in 1..Len(d) : FunctionAt(d, i)})
        c == FirstMatch({i \in 1..Len(d) : CallAt(d, i)})
        e == FirstMatch({i \in 1..Len(d) : ExecuteAt(d, i)})
    IN IF t > 0 THEN d[t]
       ELSE IF f > 0 THEN d[f]
       ELSE IF c > 0 THEN d[c + 2]
       ELSE IF e > 0 THEN d[e + 2]
       ELSE None

\* step["tool"]
ToolHint(d) == IF MatchUse(d) # None THEN MatchUse(d) ELSE MatchToolPatterns(d)

\* The backquote character.
Backquote == "backquote"

\* The section markers looked for in a line.
ParameterMarkers == {"**Parameters:**", "- Parameters:"}
InformationMarkers == {"**Information Obtained:**", "- Information Obtained:"}
ContributionMarkers == {"**Contribution:**", "- Contribution:"}

\* marker in line
HasMarker(line, markers) == \E i \in 1..Len(line) : line[i] \in markers

\* The lines a strategy text is made of here: numbered lines (in order, out
\* of order, indented, with a numeral too long for int), lines that only
\* look numbered, section markers, section content and an empty line.
Lines ==
    {<<"1", ".", " ", "Use", " ", "the", " ", "list_tables", " ", "tool", " ",
       "to", " ", "enumerate", " ", "schema">>,
     <<"2", ".", " ", "Use", " ", "the", " ", "read_query", " ", "tool", " ",
       "to", " ", "fetch", " ", "rows">>,
     <<"  ", "2", ".", " ", "Call", " ", "describe_table">>,
     <<"10", ".", "  ", "Summarize", " ", "findings">>,
     <<"1", ".", " ", "use", " ", "the", " ", "read_query", " ", "function">>,
     <<"4", ".", " ", "Use", " ", "read_query", " ", "to", " ", "call", " ",
       "list_tables">>,
     <<"3", ".", " ", "Then", " ", "execute", " ", "read_query">>,
     <<"4", ".", " ", "Call", " ", "the", " ", "read_query", " ", "tool">>,
     <<LongNumeral, ".", " ", "Use", " ", "read_query">>,
     <<"3", ".", "Use", " ", "read_query">>,
     <<"Use", " ", "the", " ", "tool">>,
     <<"**Parameters:**">>,
     <<"  ", "-", " ", Backquote, "table", Backquote, ":", " ", "*", "orders",
       "*">>,
     <<"- Information Obtained:", " ", "rows">>,
     <<"**Contribution:**">>,
     <<>>}

\* strategy_text.split("\n"): at least one line.
Texts == UNION {[1..k -> Lines] : k \in 1..MaxLines}

\* The step a numbered line begins.
NewStep(line) ==
    [number |-> IntOf(StepNumeral(line)),
     description |-> StepDescription(line),
     parameters |-> <<>>, information_obtained |-> <<>>,
     contribution |-> <<>>, tool |-> None]

\* Variant: a step whose number was already used is merged into the earlier
\* one.
FlushMerged(ss, step) ==
    IF step # NoStep /\ \A k \in 1..Len(ss) : ss[k].number # step.number
    THEN Append(ss, step) ELSE ss

\* steps.append(current_step), if there is a current step.
Flush(ss, step) == IF step # NoStep THEN Append(ss, step) ELSE ss

\* A line of a section, as appended to the parameters.
ParameterLine(line) == DropDash(Remove(Remove(Strip(line), Backquote), "*"))

\* A line of a section, as added to a text gathered so far.
Gathered(text, line) ==
    LET content == DropDash(Strip(line))
    IN IF text # <<>> THEN text \o <<" ">> \o content ELSE content

\* _parse_strategy_steps is called with a text.
ParseStart ==
    /\ parse_pc = "idle"
    /\ \E text \in Texts : lines' = text
    /\ line_no' = 1
    /\ parse_pc' = "lines"
    /\ steps' = <<>>
    /\ current_step' = NoStep
    /\ in_parameters' = FALSE
    /\ in_information' = FALSE
    /\ in_contribution' = FALSE
    /\ UNCHANGED <<chanVars, gwVars, orchVars, apiVars>>

\* The three flags after a line.
Flags(p, i, c) ==
    /\ in_parameters' = p
    /\ in_information' = i
    /\ in_contribution' = c

\* One turn of "for line in lines".
ParseLine ==
    /\ parse_pc = "lines"
    /\ LET line == lines[line_no]
       IN IF StepMatch(line) /\ StepNumeral(line) = LongNumeral
          THEN \* int() raises ValueError
               /\ parse_pc' = "raised"
               /\ steps' = Flush(steps, current_step)
               /\ UNCHANGED <<line_no, current_step, in_parameters,
                              in_information, in_contribution>>
          ELSE /\ parse_pc' = IF line_no = Len(lines) THEN "hints" ELSE "lines"
               /\ line_no' = line_no + 1
               /\ CASE StepMatch(line) ->
                         /\ steps' = Flush(steps, current_step)
                         /\ current_step' = NewStep(line)
                         /\ Flags(FALSE, FALSE, FALSE)
                    [] ~StepMatch(line) /\ current_step = NoStep ->
                         UNCHANGED <<steps, current_step, in_parameters,
                                     in_information, in_contribution>>
                    [] OTHER ->
                         /\ steps' = steps
                         /\ IF HasMarker(line, ParameterMarkers)
                            THEN Flags(TRUE, FALSE, FALSE) /\ UNCHANGED current_step
                            ELSE IF HasMarker(line, InformationMarkers)
                            THEN Flags(FALSE, TRUE, FALSE) /\ UNCHANGED current_step
                            ELSE IF HasMarker(line, ContributionMarkers)
                            THEN Flags(FALSE, FALSE, TRUE) /\ UNCHANGED current_step
                            ELSE /\ UNCHANGED <<in_parameters, in_information,
                                                in_contribution>>
                                 /\ current_step' =
                                      IF Strip(line) = <<>> THEN current_step
                                      ELSE IF in_parameters
                                      THEN [current_step EXCEPT !.parameters =
                                              Append(@, ParameterLine(line))]
                                      ELSE IF in_information
                                      THEN [current_step EXCEPT !.information_obtained =
                                              Gathered(@, line)]
                                      ELSE IF in_contribution
                                      THEN [current_step EXCEPT !.contribution =
                                              Gathered(@, line)]
                                      ELSE current_step
    /\ UNCHANGED lines
    /\ UNCHANGED <<chanVars, gwVars, orchVars, apiVars>>

\* After the loop: the last step is appended, every step gets its tool hint
\* and the steps are returned.
ParseEnd ==
    /\ parse_pc = "hints"
    /\ LET all == Flush(steps, current_step)
       IN steps' = [k \in 1..Len(all) |->
                      [all[k] EXCEPT !.tool = ToolHint(all[k].description)]]
    /\ parse_pc' = "done"
    /\ UNCHANGED <<lines, line_no, current_step, in_parameters,
                   in_information, in_contribution>>
    /\ UNCHANGED <<chanVars, gwVars, orchVars, apiVars>>

\* ------------------------------------------------- AnalysisOrchestrator
\* A phase entered by a run; step is 0 for the phases outside the step loop.
Phase(name, k) == [phase |-> name, step |-> k]

\* What a model call can do: return a response, or raise the primary error
\* after every tier failed.
ModelOutcomes == {"ok", "raise"}

\* A model call is made in a phase.
ModelCall(phase) ==
    /\ model_calls' = model_calls + 1
    /\ phases' = Append(phases, phase)

\* The exception of a model call leaves process_query.
ModelRaises ==
    /\ model_failed' = TRUE
    /\ o_pc' = "failed"
    /\ o_outcome' = [kind |-> "raise", value |-> "primary_error"]

\* manage_context returns at once for a history within the limit; for a
\* longer one it tests a message, a dict, for membership in a set.
ManageContextRaises(history) == Len(history) > HistoryLimit

\* The queries before the one that is followed: five of them were answered,
\* each leaving the query and the reply in the history, which is then at
\* the limit of manage_context.
EarlierQueries ==
    /\ o_pc = "idle"
    /\ conversation_history = <<>>
    /\ conversation_history' = Turns(HistoryLimit \div 2)
    /\ UNCHANGED <<o_pc, classification, total_steps, step_index, model_calls,
                   model_failed, phases, step_results, execution_context,
                   tool_requests, o_outcome>>
    /\ UNCHANGED <<chanVars, gwVars, parseVars, apiVars>>

\* process_query up to the classification call, for the one query that is
\* followed.
ProcessQuery ==
    /\ o_pc = "idle"
    /\ conversation_history' =
           Append(conversation_history, Message("user", "query"))
    /\ RunReset
    /\ IF ManageContextRaises(conversation_history')
       THEN /\ o_pc' = "failed"
            /\ o_outcome' = [kind |-> "raise", value |-> "TypeError"]
       ELSE /\ o_pc' = "classify"
            /\ o_outcome' = [kind |-> None, value |-> None]
    /\ UNCHANGED <<chanVars, gwVars, parseVars, apiVars>>

\* The texts the classification call can return.
ClassificationTexts ==
    {<<"CASUAL_CONVERSATION">>, <<"casual_conversation">>,
     <<"HELP_REQUEST">>,
     <<"HELP_REQUEST", " ", "or", " ", "CASUAL_CONVERSATION">>,
     <<"ANALYSIS_NEEDED">>, <<"Sorry">>}

\* str.upper()
Upper(t) ==
    CASE t = "casual_conversation" -> "CASUAL_CONVERSATION"
      [] t = "or" -> "OR"
      [] t = "Sorry" -> "SORRY"
      [] OTHER -> t

\* marker in text.strip().upper()
Contains(text, marker) == \E k \in 1..Len(text) : Upper(text[k]) = marker

\* Variant: the strategic branch only for a text that names it.
BranchAnalysisNamed(text) ==
    IF Contains(text, "ANALYSIS_NEEDED") THEN "question"
    ELSE IF Contains(text, "HELP_REQUEST") THEN "help"
    ELSE "casual"

\* The branch process_query takes on a classification text.
Branch(text) ==
    IF Contains(text, "CASUAL_CONVERSATION") THEN "casual"
    ELSE IF Contains(text, "HELP_REQUEST") THEN "help"
    ELSE "question"

\* The classification call and the choice of the branch.
Classify ==
    /\ o_pc = "classify"
    /\ ModelCall(Phase("classification", 0))
    /\ \E outcome \in ModelOutcomes :
         IF outcome = "raise"
         THEN ModelRaises /\ UNCHANGED classification
         ELSE \E text \in ClassificationTexts :
                /\ classification' = text
                /\ o_pc' = Branch(text)
                /\ UNCHANGED <<model_failed, o_outcome>>
    /\ UNCHANGED <<conversation_history, total_steps, step_index,
                   step_results, execution_context, tool_requests>>
    /\ UNCHANGED <<chanVars, gwVars, parseVars, apiVars>>

\* A branch that answers with one model call: the reply is appended to the
\* history and returned.
Reply(phase) ==
    /\ ModelCall(Phase(phase, 0))
    /\ \E outcome \in ModelOutcomes :
         IF outcome = "raise"
         THEN ModelRaises /\ UNCHANGED conversation_history
         ELSE /\ conversation_history' =
                    Append(conversation_history, Message("assistant", phase))
              /\ o_pc' = "done"
              /\ o_outcome' = [kind |-> "return", value |-> phase]
              /\ UNCHANGED model_failed
    /\ UNCHANGED <<classification, total_steps, step_index,
                   step_results, execution_context, tool_requests>>
    /\ UNCHANGED <<chanVars, gwVars, parseVars, apiVars>>

\* _handle_casual_conversation
HandleCasualConversation == o_pc = "casual" /\ Reply("casual_reply")

\* _handle_help_request
HandleHelpRequest == o_pc = "help" /\ Reply("help_reply")

\* Phase 1 of strategic_analysis: the question analysis call.
QuestionAnalysis ==
    /\ o_pc = "question"
    /\ ModelCall(Phase("question_analysis", 0))
    /\ \E outcome \in ModelOutcomes :
         IF outcome = "raise" THEN ModelRaises
         ELSE o_pc' = "planning" /\ UNCHANGED <<model_failed, o_outcome>>
    /\ UNCHANGED <<conversation_history, classification, total_steps,
                   step_index, step_results, execution_context, tool_requests>>
    /\ UNCHANGED <<chanVars, gwVars, parseVars, apiVars>>

\* Where the run goes when the step loop has done i of its total steps.
\* Variant: the loop goes round once more than there are steps.
LoopOnceMore(i, total) == IF i <= total THEN "exec" ELSE "evaluation"

\* Variant: the body of the loop runs once for an empty plan.
LoopAtLeastOnce(i, total) == IF i < total \/ i = 0 THEN "exec" ELSE "evaluation"

\* for i, step in enumerate(steps)
Loop(i, total) == IF i < total THEN "exec" ELSE "evaluation"

\* Phase 2: the planning call and _parse_strategy_steps on its text, which
\* returns the steps or raises (Part 3); execution_context starts with the
\* analysis and the plan.
StrategicPlanning ==
    /\ o_pc = "planning"
    /\ ModelCall(Phase("strategic_planning", 0))
    /\ \/ /\ ModelRaises
          /\ UNCHANGED <<total_steps, execution_context>>
       \/ /\ o_pc' = "failed"
          /\ o_outcome' = [kind |-> "raise", value |-> "ValueError"]
          /\ UNCHANGED <<model_failed, total_steps, execution_context>>
       \/ \E n \in 0..MaxSteps :
            /\ total_steps' = n
            /\ execution_context' = <<<<"ANALYSIS PLAN", 0, <<>>>>>>
            /\ o_pc' = Loop(0, n)
            /\ UNCHANGED <<model_failed, o_outcome>>
    /\ UNCHANGED <<conversation_history, classification, step_index,
                   step_results, tool_requests>>
    /\ UNCHANGED <<chanVars, gwVars, parseVars, apiVars>>

\* Phase 3, step i + 1: the execution call with the tool declarations, and
\* process_tool_calls up to its polling loop: every function call of the
\* response is enqueued (none when the response has none or comes from the
\* tier without tools).
ExecuteStep ==
    /\ o_pc = "exec"
    /\ ModelCall(Phase("execution", step_index + 1))
    /\ \E outcome \in ModelOutcomes :
         IF outcome = "raise"
         THEN ModelRaises /\ UNCHANGED <<step_results, tool_requests>>
         ELSE \E n \in 0..MaxToolCalls :
                /\ step_results' = [k \in 1..n |-> "pending"]
                /\ tool_requests' = tool_requests + n
                /\ o_pc' = "tools"
                /\ UNCHANGED <<model_failed, o_outcome>>
    /\ UNCHANGED <<conversation_history, classification, total_steps,
                   step_index, execution_context>>
    /\ UNCHANGED <<chanVars, gwVars, parseVars, apiVars>>

\* What the polling loop can record for a request: the result of the call,
\* the error of the call, or "Request timed out".
ToolOutcomes == {"success", "error", "timeout"}

\* The request the polling loop is waiting for: the first without a result,
\* 0 when every request has one.
Waiting(rs) ==
    IF \A k \in 1..Len(rs) : rs[k] # "pending" THEN 0
    ELSE CHOOSE k \in 1..Len(rs) :
             rs[k] = "pending" /\ \A j \in 1..(k - 1) : rs[j] # "pending"

\* The polling loop of process_tool_calls records the outcome of the request
\* it is waiting for.
ResolveToolCall ==
    /\ o_pc = "tools"
    /\ Waiting(step_results) # 0
    /\ \E outcome \in ToolOutcomes :
         step_results' = [step_results EXCEPT ![Waiting(step_results)] = outcome]
    /\ UNCHANGED <<o_pc, conversation_history, classification,
                   total_steps, step_index, model_calls, model_failed, phases,
                   execution_context, tool_requests, o_outcome>>
    /\ UNCHANGED <<chanVars, gwVars, parseVars, apiVars>>

\* Variant: a failure is written like a result.
ResultTextAlike(outcome) == "Result from tool"

\* The text _format_tool_results_for_gemini writes for one result.
ResultText(outcome) ==
    CASE outcome = "success" -> "Result from tool"
      [] outcome = "error" -> "Error from tool: call failed"
      [] outcome = "timeout" -> "Error from tool: Request timed out"

\* _format_tool_results_for_gemini, on the results process_tool_calls
\* returned.
FormatToolResults(rs) ==
    LET returned == SelectSeq(rs, LAMBDA r : r # "pending")
    IN [k \in 1..Len(returned) |-> ResultText(returned[k])]

\* Variant: process_tool_calls returns when its first request has a result.
ReturnsAfterFirst(rs) == IF rs = <<>> THEN TRUE ELSE rs[1] # "pending"

\* process_tool_calls returns when the polling loop has been through every
\* pending request.
Returns(rs) == Waiting(rs) = 0

\* The rest of step i + 1 once process_tool_calls has returned: the results
\* are formatted, the insight call is made, and the results and the insights
\* are added to execution_context.
ExtractInsights ==
    /\ o_pc = "tools"
    /\ Returns(step_results)
    /\ model_calls' = model_calls + 1
    /\ \E outcome \in ModelOutcomes :
         IF outcome = "raise"
         THEN ModelRaises /\ UNCHANGED <<step_index, execution_context>>
         ELSE /\ execution_context' =
                    execution_context
                      \o <<<<"STEP RESULTS", step_index + 1,
                             FormatToolResults(step_results)>>,
                           <<"STEP INSIGHTS", step_index + 1, <<>>>>>>
              /\ step_index' = step_index + 1
              /\ o_pc' = Loop(step_index + 1, total_steps)
              /\ UNCHANGED <<model_failed, o_outcome>>
    /\ UNCHANGED <<conversation_history, classification, total_steps,
                   phases, step_results, tool_requests>>
    /\ UNCHANGED <<chanVars, gwVars, parseVars, apiVars>>

\* Phase 4: the critical evaluation call; its text is added to the context.
CriticalEvaluation ==
    /\ o_pc = "evaluation"
    /\ ModelCall(Phase("critical_evaluation", 0))
    /\ \E outcome \in ModelOutcomes :
         IF outcome = "raise" THEN ModelRaises /\ UNCHANGED execution_context
         ELSE /\ execution_context' =
                    Append(execution_context, <<"CRITICAL EVALUATION", 0, <<>>>>)
              /\ o_pc' = "synthesis"
              /\ UNCHANGED <<model_failed, o_outcome>>
    /\ UNCHANGED <<conversation_history, classification, total_steps,
                   step_index, step_results, tool_requests>>
    /\ UNCHANGED <<chanVars, gwVars, parseVars, apiVars>>

\* Phase 5: the synthesis call; the final analysis is appended to the history
\* and returned.
Synthesis ==
    /\ o_pc = "synthesis"
    /\ ModelCall(Phase("synthesis", 0))
    /\ \E outcome \in ModelOutcomes :
         IF outcome = "raise" THEN ModelRaises /\ UNCHANGED conversation_history
         ELSE /\ conversation_history' =
                    Append(conversation_history,
                           Message("assistant", "final_analysis"))
              /\ o_pc' = "done"
              /\ o_outcome' = [kind |-> "return", value |-> "final_analysis"]
              /\ UNCHANGED model_failed
    /\ UNCHANGED <<classification, total_steps, step_index,
                   step_results, execution_context, tool_requests>>
    /\ UNCHANGED <<chanVars, gwVars, parseVars, apiVars>>


\* ------------------------------------------------- Part 5: SessionQueries
\* The queries of the requests and the texts the final model call of a
\* branch can return.
QueryTexts == {"query", "other query"}
ReplyTexts == {"reply", "other reply"}

\* What the run of one call leaves alone in this part: the locals of the
\* run followed in Part 4.
runLocals ==
    <<o_pc, classification, total_steps, step_index, model_calls, model_failed,
      phases, step_results, execution_context, tool_requests, o_outcome>>

\* process_query from its entry to its first await: the query is appended,
\* manage_context runs (it awaits nothing) and list_tools is awaited.
QueryStart(c) ==
    /\ q_pc[c] = "idle"
    /\ \E query \in QueryTexts :
        /\ q_query' = [q_query EXCEPT ![c] = query]
        /\ conversation_history' =
               Append(conversation_history, Message("user", query))
    /\ q_pc' = [q_pc EXCEPT ![c] =
                   IF ManageContextRaises(conversation_history')
                   THEN "raised" ELSE "list_tools"]
    /\ UNCHANGED <<q_reply, runLocals>>
    /\ UNCHANGED <<chanVars, gwVars, parseVars, regVars, queryVars, auxVars>>

\* The rest of process_query: list_tools has returned, the branch runs and
\* either a call of it raises or its last model call returns the reply,
\* which is appended and returned.
QueryFinish(c) ==
    /\ q_pc[c] = "list_tools"
    /\ \E outcome \in ModelOutcomes :
        IF outcome = "raise"
        THEN /\ q_pc' = [q_pc EXCEPT ![c] = "raised"]
             /\ UNCHANGED <<conversation_history, q_reply>>
        ELSE \E reply \in ReplyTexts :
             /\ q_pc' = [q_pc EXCEPT ![c] = "returned"]
             /\ q_reply' = [q_reply EXCEPT ![c] = reply]
             /\ conversation_history' =
                    Append(conversation_history, Message("assistant", reply))
    /\ UNCHANGED <<q_query, runLocals>>
    /\ UNCHANGED <<chanVars, gwVars, parseVars, regVars, queryVars, auxVars>>


\* ------------------------------------------------ Part 6: SessionRegistry
\* The session ids of the requests (an init without session_id gets a uuid,
\* an id that is not registered) and the server types they name, one of
\* SERVER_PATHS and one that is not.
SessionIds == {"s1", "s2"}
SERVER_PATHS == {"rfx", "samsara", "raw_rfx"}
RequestedTypes == {"rfx", "other"}

\* How an awaited cleanup or connect_to_server ends.
AwaitOutcomes == {"ok", "raise"}

\* A client object: the session id it was created for and whether it is
\* being connected, connected, torn down, or failed to connect.
Client(session_id, state) == [session_id |-> session_id, state |-> state]

\* cleanup was awaited on client k: whatever it raised, the worker was
\* cancelled and the session dropped.
TornDown(cs, k) == [cs EXCEPT ![k].state = "closed"]

\* load_mcp_client up to its await: the client is constructed and the
\* server path looked up; an unknown type raises, which initialize_session
\* answers with status error.
LoadMcpClient(r, session_id, server_type, cs) ==
    IF server_type \in SERVER_PATHS
    THEN /\ clients' = Append(cs, Client(session_id, "connecting"))
         /\ r_client' = [r_client EXCEPT ![r] = Len(cs) + 1]
         /\ r_pc' = [r_pc EXCEPT ![r] = "connect"]
         /\ UNCHANGED r_response
    ELSE /\ clients' = Append(cs, Client(session_id, "failed"))
         /\ r_client' = [r_client EXCEPT ![r] = Len(cs) + 1]
         /\ r_pc' = [r_pc EXCEPT ![r] = "done"]
         /\ r_response' = [r_response EXCEPT ![r] = "error"]

\* initialize_session from its entry to its first await: the cleanup of
\* the client registered under the id, or connect_to_server.
InitializeSession(r) ==
    /\ r_pc[r] = "idle"
    /\ \E session_id \in SessionIds, server_type \in RequestedTypes :
        /\ r_kind' = [r_kind EXCEPT ![r] = "init"]
        /\ r_session' = [r_session EXCEPT ![r] = session_id]
        /\ r_type' = [r_type EXCEPT ![r] = server_type]
        /\ IF session_id \in DOMAIN active_sessions
           THEN /\ r_client' = [r_client EXCEPT ![r] = active_sessions[session_id]]
                /\ r_pc' = [r_pc EXCEPT ![r] = "init_cleanup"]
                /\ UNCHANGED <<clients, r_response>>
           ELSE LoadMcpClient(r, session_id, server_type, clients)
    /\ UNCHANGED <<active_sessions, session_types, r_cleanup>>
    /\ UNCHANGED <<chanVars, gwVars, parseVars, orchVars, callVars, queryVars, auxVars>>

\* The cleanup awaited by initialize_session ends; an exception of it is
\* logged as a warning.  The handler goes on to load_mcp_client.
InitCleanupReturns(r) ==
    /\ r_pc[r] = "init_cleanup"
    /\ \E outcome \in AwaitOutcomes :
        r_cleanup' = [r_cleanup EXCEPT ![r] = outcome]
    /\ LoadMcpClient(r, r_session[r], r_type[r], TornDown(clients, r_client[r]))
    /\ UNCHANGED <<active_sessions, session_types, r_kind, r_session, r_type>>
    /\ UNCHANGED <<chanVars, gwVars, parseVars, orchVars, callVars, queryVars, auxVars>>

\* connect_to_server ends.  If it raised, the handler answers status error;
\* otherwise the client is stored in both maps and list_tools is awaited.
InitConnectReturns(r) ==
    /\ r_pc[r] = "connect"
    /\ \E outcome \in AwaitOutcomes :
        IF outcome = "raise"
        THEN /\ clients' = [clients EXCEPT ![r_client[r]].state = "failed"]
             /\ r_pc' = [r_pc EXCEPT ![r] = "done"]
             /\ r_response' = [r_response EXCEPT ![r] = "error"]
             /\ UNCHANGED <<active_sessions, session_types>>
        ELSE /\ clients' = [clients EXCEPT ![r_client[r]].state = "connected"]
             /\ active_sessions' = (r_session[r] :> r_client[r]) @@ active_sessions
             /\ session_types' = (r_session[r] :> r_type[r]) @@ session_types
             /\ r_pc' = [r_pc EXCEPT ![r] = "list_tools"]
             /\ UNCHANGED r_response
    /\ UNCHANGED <<r_kind, r_session, r_type, r_client, r_cleanup>>
    /\ UNCHANGED <<chanVars, gwVars, parseVars, orchVars, callVars, queryVars, auxVars>>

\* list_tools ends (an exception of it is logged) and the handler answers
\* status connected.
InitListToolsReturns(r) ==
    /\ r_pc[r] = "list_tools"
    /\ r_pc' = [r_pc EXCEPT ![r] = "done"]
    /\ r_response' = [r_response EXCEPT ![r] = "connected"]
    /\ UNCHANGED <<active_sessions, session_types, clients,
                   r_kind, r_session, r_type, r_client, r_cleanup>>
    /\ UNCHANGED <<chanVars, gwVars, parseVars, orchVars, callVars, queryVars, auxVars>>

\* delete_session from its entry to the await of cleanup, or to its return
\* when the id is not registered.
DeleteSession(r) ==
    /\ r_pc[r] = "idle"
    /\ \E session_id \in SessionIds :
        /\ r_kind' = [r_kind EXCEPT ![r] = "delete"]
        /\ r_session' = [r_session EXCEPT ![r] = session_id]
        /\ IF session_id \in DOMAIN active_sessions
           THEN /\ r_client' = [r_client EXCEPT ![r] = active_sessions[session_id]]
                /\ r_pc' = [r_pc EXCEPT ![r] = "delete_cleanup"]
                /\ UNCHANGED r_response
           ELSE /\ r_pc' = [r_pc EXCEPT ![r] = "done"]
                /\ r_response' = [r_response EXCEPT ![r] = "success"]
                /\ UNCHANGED r_client
    /\ UNCHANGED <<active_sessions, session_types, clients, r_type, r_cleanup>>
    /\ UNCHANGED <<chanVars, gwVars, parseVars, orchVars, callVars, queryVars, auxVars>>

\* The entries of both maps after the finally block of delete_session, when
\* del active_sessions[session_id] finds the key.
Deleted(map, session_id) == Pop(map, session_id)

\* The cleanup awaited by delete_session ends; an exception of it is logged.
\* The finally block deletes the entry of active_sessions, which raises
\* KeyError when the key is gone, and then the entry of session_types.
DeleteCleanupReturns(r) ==
    /\ r_pc[r] = "delete_cleanup"
    /\ \E outcome \in AwaitOutcomes :
        r_cleanup' = [r_cleanup EXCEPT ![r] = outcome]
    /\ clients' = TornDown(clients, r_client[r])
    /\ r_pc' = [r_pc EXCEPT ![r] = "done"]
    /\ IF r_session[r] \in DOMAIN active_sessions
       THEN /\ active_sessions' = Deleted(active_sessions, r_session[r])
            /\ session_types' = Deleted(session_types, r_session[r])
            /\ r_response' = [r_response EXCEPT ![r] = "success"]
       ELSE /\ r_response' = [r_response EXCEPT ![r] = "KeyError"]
            /\ UNCHANGED <<active_sessions, session_types>>
    /\ UNCHANGED <<r_kind, r_session, r_type, r_client>>
    /\ UNCHANGED <<chanVars, gwVars, parseVars, orchVars, callVars, queryVars, auxVars>>


\* ------------------------------------------------- Part 7: QueryEndpoints
\* An event of a stream, with the request whose handler or process_query
\* call made it.
Event(type, message, from) == [type |-> type, message |-> message, from |-> from]

\* The JSON body a POST answers with; 404 is the HTTPException.
Answer(status, message) == [status |-> status, message |-> message]

\* process_task.done()
TaskDone(task) == task \in {"returned", "raised", "cancelled"}

\* Variant: the loop ends without looking at the queue.
LoopEndsQueueUnseen(complete, queue, sent) == complete /\ sent

\* The condition that ends the while loop of event_generator.
LoopEnds(complete, queue, sent) == complete /\ queue = <<>> /\ sent

\* Variant: every session id is taken as registered.
InActiveSessionsAlways(session_id, sessions) == TRUE

\* session_id in active_sessions
InActiveSessions(session_id, sessions) == session_id \in DOMAIN sessions

\* What the variables of the other requests and parts keep in a step of the
\* handler of a POST.
PostFrame ==
    /\ UNCHANGED <<pending_puts, progress_queue, processing_complete,
                   final_response_sent, consecutive_timeouts, relayed,
                   progress_callback>>
    /\ UNCHANGED <<chanVars, gwVars, parseVars, orchVars, callVars, regVars, auxVars>>

\* The init request that created the session of the query requests and was
\* answered before them: initialize_session for the id "s1", which was not
\* registered, with connect_to_server and list_tools returning.
SessionCreated ==
    /\ r_pc[1] = "idle"
    /\ active_sessions = << >>
    /\ clients' = <<Client("s1", "connected")>>
    /\ active_sessions' = ("s1" :> 1)
    /\ session_types' = ("s1" :> "rfx")
    /\ r_pc' = [r_pc EXCEPT ![1] = "done"]
    /\ r_kind' = [r_kind EXCEPT ![1] = "init"]
    /\ r_session' = [r_session EXCEPT ![1] = "s1"]
    /\ r_type' = [r_type EXCEPT ![1] = "rfx"]
    /\ r_client' = [r_client EXCEPT ![1] = 1]
    /\ r_response' = [r_response EXCEPT ![1] = "connected"]
    /\ UNCHANGED r_cleanup
    /\ UNCHANGED <<chanVars, gwVars, parseVars, orchVars, callVars, queryVars, auxVars>>

\* POST /api/query up to the await of process_query, or to the 404 for a
\* session that is not registered.
PostQuery(q) ==
    /\ e_pc[q] = "idle"
    /\ \E session_id \in SessionIds :
        /\ e_kind' = [e_kind EXCEPT ![q] = "post"]
        /\ e_session' = [e_session EXCEPT ![q] = session_id]
        /\ IF ~InActiveSessions(session_id, active_sessions)
           THEN /\ e_response' =
                       [e_response EXCEPT ![q] = Answer("404", "Session not found")]
                /\ e_pc' = [e_pc EXCEPT ![q] = "responded"]
                /\ UNCHANGED process_task
           ELSE /\ e_pc' = [e_pc EXCEPT ![q] = "awaiting"]
                /\ process_task' = [process_task EXCEPT ![q] = "running"]
                /\ UNCHANGED e_response
    /\ UNCHANGED calls_made
    /\ PostFrame

\* GET /api/query-stream up to the first wait of the relay loop: the first
\* progress event is relayed, the queue and the task are created.  For a
\* session that is not registered one error event is relayed and the
\* generator returns.
StreamQuery(q) ==
    /\ e_pc[q] = "idle"
    /\ \E session_id \in SessionIds :
        /\ e_kind' = [e_kind EXCEPT ![q] = "stream"]
        /\ e_session' = [e_session EXCEPT ![q] = session_id]
        /\ IF ~InActiveSessions(session_id, active_sessions)
           THEN /\ relayed' = [relayed EXCEPT ![q] =
                                  <<Event("error", "Session not found", q)>>]
                /\ e_pc' = [e_pc EXCEPT ![q] = "ended"]
                /\ UNCHANGED process_task
           ELSE /\ relayed' = [relayed EXCEPT ![q] =
                                  <<Event("progress", "Analyzing your request...", q)>>]
                /\ e_pc' = [e_pc EXCEPT ![q] = "streaming"]
                /\ process_task' = [process_task EXCEPT ![q] = "created"]
    /\ UNCHANGED <<e_response, calls_made, pending_puts, progress_queue,
                   processing_complete, final_response_sent,
                   consecutive_timeouts, progress_callback>>
    /\ UNCHANGED <<chanVars, gwVars, parseVars, orchVars, callVars, regVars, auxVars>>

\* process_query_task starts: it sets its progress_callback on the client
\* and calls process_query.
TaskStarts(q) ==
    /\ process_task[q] = "created"
    /\ process_task' = [process_task EXCEPT ![q] = "running"]
    /\ progress_callback' = q
    /\ UNCHANGED <<e_pc, e_kind, e_session, e_response, calls_made,
                   pending_puts, progress_queue, processing_complete,
                   final_response_sent, consecutive_timeouts, relayed>>
    /\ UNCHANGED <<chanVars, gwVars, parseVars, orchVars, callVars, regVars, auxVars>>

\* A scheduled progress_queue.put runs.
PutProgress(q) ==
    /\ pending_puts[q] # <<>>
    /\ progress_queue' = [progress_queue EXCEPT ![q] = Append(@, Head(pending_puts[q]))]
    /\ pending_puts' = [pending_puts EXCEPT ![q] = Tail(@)]
    /\ UNCHANGED <<e_pc, e_kind, e_session, e_response, process_task, calls_made,
                   processing_complete, final_response_sent,
                   consecutive_timeouts, relayed, progress_callback>>
    /\ UNCHANGED <<chanVars, gwVars, parseVars, orchVars, callVars, regVars, auxVars>>

\* The process_query call of q ends, returning its text or raising: the
\* handler of a POST answers; the task of a stream puts the final or the
\* error event and sets both flags.
RunEnds(q, how) ==
    /\ process_task' = [process_task EXCEPT ![q] = how]
    /\ IF e_kind[q] = "post"
       THEN /\ e_pc' = [e_pc EXCEPT ![q] = "responded"]
            /\ e_response' = [e_response EXCEPT ![q] =
                   IF how = "raised"
                   THEN Answer("error", "Failed to process query")
                   ELSE Answer("success", None)]
            /\ UNCHANGED <<progress_queue, processing_complete, final_response_sent>>
       ELSE /\ progress_queue' = [progress_queue EXCEPT ![q] = Append(@,
                   IF how = "raised"
                   THEN Event("error", "Error processing query", q)
                   ELSE Event("final", "response", q))]
            /\ final_response_sent' = [final_response_sent EXCEPT ![q] = TRUE]
            /\ processing_complete' = [processing_complete EXCEPT ![q] = TRUE]
            /\ UNCHANGED <<e_pc, e_response>>

\* _report_progress: the callback of the client, if one is set, schedules
\* a put on the queue of the stream that set it.
Reported(q, puts) ==
    IF progress_callback = NoCallback THEN puts
    ELSE [puts EXCEPT ![progress_callback] = Append(@, Event("progress", "phase", q))]

\* The next model call of the process_query call of q.  The first one is
\* the classification; a later one is the call of a phase, with a progress
\* report before it, or the reply of the casual or help branch, without.
\* If the call raises, so does process_query; after the last call
\* process_query returns.
RunModelCall(q) ==
    /\ process_task[q] = "running"
    /\ calls_made[q] < MaxModelCalls
    /\ \E report \in {FALSE, calls_made[q] > 0} :
        pending_puts' = IF report THEN Reported(q, pending_puts) ELSE pending_puts
    /\ \E outcome \in ModelOutcomes :
        IF outcome = "raise"
        THEN RunEnds(q, "raised") /\ UNCHANGED calls_made
        ELSE /\ calls_made' = [calls_made EXCEPT ![q] = @ + 1]
             /\ IF calls_made'[q] = MaxModelCalls
                THEN RunEnds(q, "returned")
                ELSE UNCHANGED <<process_task, e_pc, e_response, progress_queue,
                                 processing_complete, final_response_sent>>
    /\ UNCHANGED <<e_kind, e_session, consecutive_timeouts, relayed,
                   progress_callback>>
    /\ UNCHANGED <<chanVars, gwVars, parseVars, orchVars, callVars, regVars, auxVars>>

\* The generator leaves the loop: a task that is not done is cancelled.
StreamEnds(q, ends) ==
    /\ e_pc' = [e_pc EXCEPT ![q] = IF ends THEN "ended" ELSE "streaming"]
    /\ process_task' = [process_task EXCEPT ![q] =
           IF ends /\ ~TaskDone(@) THEN "cancelled" ELSE @]

\* Variant: the counter of timeouts is kept when an event is relayed.
AfterEventKept(timeouts) == timeouts

\* consecutive_timeouts after an event was taken from the queue.
AfterEvent(timeouts) == 0

\* progress_queue.get returns an event: it is relayed and the counter of
\* timeouts starts again.
Relay(q) ==
    /\ e_pc[q] = "streaming"
    /\ progress_queue[q] # <<>>
    /\ LET result == Head(progress_queue[q]) IN
        /\ progress_queue' = [progress_queue EXCEPT ![q] = Tail(@)]
        /\ consecutive_timeouts' = [consecutive_timeouts EXCEPT ![q] = AfterEvent(@)]
        /\ keepalives' = [keepalives EXCEPT ![q] = <<>>]
        /\ relayed' = [relayed EXCEPT ![q] = Append(@, result)]
        /\ final_response_sent' = [final_response_sent EXCEPT ![q] =
               @ \/ result.type \in {"final", "error"}]
    /\ StreamEnds(q, LoopEnds(processing_complete[q], progress_queue'[q],
                              final_response_sent'[q]))
    /\ UNCHANGED <<e_kind, e_session, e_response, calls_made,
                   pending_puts, processing_complete, progress_callback>>
    /\ UNCHANGED <<chanVars, gwVars, parseVars, orchVars, callVars, regVars,
                   trackerVars, poolVars>>

\* keepalive_data, the timestamp left out.
Keepalive(timeouts, complete, queue_empty, sent) ==
    [type |-> "keepalive", consecutive_timeouts |-> timeouts,
     processing_complete |-> complete, queue_empty |-> queue_empty,
     final_sent |-> sent]

\* wait_for times out on the empty queue, with no put scheduled that would
\* run before the timeout does: a keepalive is relayed, and after
\* max_consecutive_timeouts of them a stream whose task has ended stops,
\* with an error event if no final or error event was relayed.
Timeout(q) ==
    /\ e_pc[q] = "streaming"
    /\ progress_queue[q] = <<>>
    /\ pending_puts[q] = <<>>
    /\ consecutive_timeouts[q] < MaxTimeouts
    /\ consecutive_timeouts' = [consecutive_timeouts EXCEPT ![q] = @ + 1]
    /\ keepalives' = [keepalives EXCEPT ![q] = Append(@,
           Keepalive(consecutive_timeouts'[q], processing_complete[q],
                     progress_queue[q] = <<>>, final_response_sent[q]))]
    /\ LET forced == /\ consecutive_timeouts'[q] >= max_consecutive_timeouts
                     /\ processing_complete[q]
       IN
        /\ relayed' = [relayed EXCEPT ![q] =
               IF forced /\ ~final_response_sent[q]
               THEN Append(@, Event("error", "Analysis timed out or disconnected", q))
               ELSE @]
        /\ StreamEnds(q, forced \/ LoopEnds(processing_complete[q],
                                            progress_queue[q],
                                            final_response_sent[q]))
    /\ UNCHANGED <<e_kind, e_session, e_response, calls_made,
                   pending_puts, progress_queue, processing_complete,
                   final_response_sent, progress_callback>>
    /\ UNCHANGED <<chanVars, gwVars, parseVars, orchVars, callVars, regVars,
                   trackerVars, poolVars>>


\* The client of the stream goes away: the server cancels the task that
\* iterates event_generator, which is waiting in wait_for (or closes the
\* generator at its yield).  CancelledError and GeneratorExit are not caught
\* by 'except Exception', and the statements after the loop, which would
\* cancel process_task, are not in a finally block: the generator is left
\* with process_task as it is.  Its counter of timeouts goes with it; the
\* queue and the flags stay, since the task holds them.
Disconnect(q) ==
    /\ e_pc[q] = "streaming"
    /\ e_pc' = [e_pc EXCEPT ![q] = "closed"]
    /\ consecutive_timeouts' = [consecutive_timeouts EXCEPT ![q] = 0]
    /\ keepalives' = [keepalives EXCEPT ![q] = <<>>]
    /\ UNCHANGED <<e_kind, e_session, e_response, process_task, calls_made,
                   pending_puts, progress_queue, processing_complete,
                   final_response_sent, relayed, progress_callback>>
    /\ UNCHANGED <<chanVars, gwVars, parseVars, orchVars, callVars, regVars,
                   trackerVars, poolVars>>

\* --------------------------------------------------- Part 8: TokenTracker
\* What the other parts keep in a step of the tracker.
TrackerFrame ==
    UNCHANGED <<chanVars, gwVars, parseVars, orchVars, callVars, regVars,
                queryVars, poolVars, keepVars>>

\* The token counts of a call, as extract_token_usage reads them.
UsageCounts == {[input |-> 3, output |-> 1], [input |-> 5, output |-> 0]}

\* usage_entry of add_usage (timestamp and cost are left out).
UsageEntry(input_tokens, output_tokens, description) ==
    [description |-> description, input_tokens |-> input_tokens,
     output_tokens |-> output_tokens,
     total_tokens |-> input_tokens + output_tokens]

\* add_usage
TrackerAddUsage ==
    /\ Len(token_tracker.token_log) < MaxUsage
    /\ \E u \in UsageCounts :
        /\ token_tracker' =
               [total_input_tokens |-> token_tracker.total_input_tokens + u.input,
                total_output_tokens |-> token_tracker.total_output_tokens + u.output,
                api_calls |-> token_tracker.api_calls + 1,
                token_log |-> Append(token_tracker.token_log,
                                     UsageEntry(u.input, u.output, "API call")),
                last_call_tokens |-> [input |-> u.input, output |-> u.output,
                                      total |-> u.input + u.output]]
        /\ usage_calls' = Append(usage_calls, u)
    /\ summary' = <<>>
    /\ TrackerFrame

\* reset
TrackerReset ==
    /\ token_tracker.api_calls > 0
    /\ token_tracker' = NewTracker
    /\ usage_calls' = <<>>
    /\ summary' = <<>>
    /\ TrackerFrame

\* Variant: the first entries of the log are shown.
TokenHistoryFirst(log) ==
    IF Len(log) > SummaryEntries THEN SubSeq(log, 1, SummaryEntries) ELSE log

\* self.token_log[-10:] if len(self.token_log) > 10 else self.token_log
TokenHistory(log) ==
    IF Len(log) > SummaryEntries
    THEN SubSeq(log, Len(log) - SummaryEntries + 1, Len(log))
    ELSE log

\* get_summary
GetSummary ==
    /\ summary = <<>>
    /\ summary' =
           <<[api_calls |-> token_tracker.api_calls,
              input_tokens |-> token_tracker.total_input_tokens,
              output_tokens |-> token_tracker.total_output_tokens,
              total_tokens |-> token_tracker.total_input_tokens
                                   + token_tracker.total_output_tokens,
              last_call |-> token_tracker.last_call_tokens,
              token_history |-> TokenHistory(token_tracker.token_log)]>>
    /\ UNCHANGED <<token_tracker, usage_calls>>
    /\ TrackerFrame


\* --------------------------------------------------- Part 9: BigQueryPool
\* What the other parts keep in a step of the pool.
PoolFrame ==
    UNCHANGED <<chanVars, gwVars, parseVars, orchVars, callVars, regVars,
                queryVars, trackerVars, keepVars>>

\* self.clients.full()
Full(queue) == Len(queue) >= max_connections

\* A tool call enters BigQueryConnection: get_client up to its return or to
\* the wait on the queue.  With the queue empty and the counter below
\* max_connections a new client is constructed and counted; a queued client
\* is taken otherwise.
GetClient(t) ==
    /\ t_pc[t] = "idle"
    /\ IF pool_clients = <<>> /\ active_clients < max_connections
       THEN /\ constructed' = constructed + 1
            /\ active_clients' = active_clients + 1
            /\ t_client' = [t_client EXCEPT ![t] = constructed']
            /\ t_pc' = [t_pc EXCEPT ![t] = "using"]
            /\ UNCHANGED pool_clients
       ELSE IF pool_clients # <<>>
       THEN /\ t_client' = [t_client EXCEPT ![t] = Head(pool_clients)]
            /\ pool_clients' = Tail(pool_clients)
            /\ t_pc' = [t_pc EXCEPT ![t] = "using"]
            /\ UNCHANGED <<constructed, active_clients>>
       ELSE /\ t_pc' = [t_pc EXCEPT ![t] = "get"]
            /\ UNCHANGED <<pool_clients, constructed, active_clients, t_client>>
    /\ PoolFrame

\* The awaited clients.get() returns a client.
GetReturns(t) ==
    /\ t_pc[t] = "get"
    /\ pool_clients # <<>>
    /\ t_client' = [t_client EXCEPT ![t] = Head(pool_clients)]
    /\ pool_clients' = Tail(pool_clients)
    /\ t_pc' = [t_pc EXCEPT ![t] = "using"]
    /\ UNCHANGED <<constructed, active_clients>>
    /\ PoolFrame

\* wait_for gives up after five seconds on the empty queue: get_client
\* raises and the tool call fails without a client.
GetTimesOut(t) ==
    /\ t_pc[t] = "get"
    /\ pool_clients = <<>>
    /\ t_pc' = [t_pc EXCEPT ![t] = "failed"]
    /\ UNCHANGED <<pool_clients, constructed, active_clients, t_client>>
    /\ PoolFrame

\* The tool call leaves BigQueryConnection: release_client awaits
\* clients.put, which returns at once if the queue has room and waits for
\* room otherwise (it never raises QueueFull).
ReleaseClient(t) ==
    /\ t_pc[t] = "using"
    /\ IF Full(pool_clients)
       THEN /\ t_pc' = [t_pc EXCEPT ![t] = "put"]
            /\ UNCHANGED <<pool_clients, t_client>>
       ELSE /\ pool_clients' = Append(pool_clients, t_client[t])
            /\ t_client' = [t_client EXCEPT ![t] = NoClient]
            /\ t_pc' = [t_pc EXCEPT ![t] = "done"]
    /\ UNCHANGED <<constructed, active_clients>>
    /\ PoolFrame

\* The awaited clients.put finds room.
PutReturns(t) ==
    /\ t_pc[t] = "put"
    /\ ~Full(pool_clients)
    /\ pool_clients' = Append(pool_clients, t_client[t])
    /\ t_client' = [t_client EXCEPT ![t] = NoClient]
    /\ t_pc' = [t_pc EXCEPT ![t] = "done"]
    /\ UNCHANGED <<constructed, active_clients>>
    /\ PoolFrame

\* ------------------------------------------------------------ the system
Next ==
    \/ ConnectToServer
    \/ Reconnect
    \/ Cleanup
    \/ \E d \in Dispatchers : DispatchGet(d)
    \/ \E d \in Dispatchers : DispatchDone(d)
    \/ \E c \in Callers : ProcessToolCalls(c)
    \/ \E c \in Callers : Poll(c)

\* The tool channel of one client.
Spec == Init /\ [][Next]_vars

GatewayNext ==
    \/ GatewayCall
    \/ PrimaryAttempt
    \/ FallbackAttempt
    \/ NoToolsAttempt

\* The model gateway of one client.
GatewaySpec == Init /\ [][GatewayNext]_vars

ParseNext ==
    \/ ParseStart
    \/ ParseLine
    \/ ParseEnd

\* The step parser, on one text.
ParseSpec == Init /\ [][ParseNext]_vars

\* The steps of a run that process_query has started.
RunNext ==
    \/ Classify
    \/ HandleCasualConversation
    \/ HandleHelpRequest
    \/ QuestionAnalysis
    \/ StrategicPlanning
    \/ ExecuteStep
    \/ ResolveToolCall
    \/ ExtractInsights
    \/ CriticalEvaluation
    \/ Synthesis

OrchNext == EarlierQueries \/ ProcessQuery \/ RunNext

OrchSpec == Init /\ [][OrchNext]_vars

\* A run that can take a step takes one: a model call returns or raises, and
\* the polling loop gives every request a result within max_retries polls.
OrchFairSpec == OrchSpec /\ WF_vars(RunNext)

CallsNext ==
    \/ EarlierQueries
    \/ \E c \in Calls : QueryStart(c)
    \/ \E c \in Calls : QueryFinish(c)

\* The process_query calls of the requests on one session.
CallsSpec == Init /\ [][CallsNext]_vars

RegistryNext ==
    \/ \E r \in SessionRequests : InitializeSession(r)
    \/ \E r \in SessionRequests : InitCleanupReturns(r)
    \/ \E r \in SessionRequests : InitConnectReturns(r)
    \/ \E r \in SessionRequests : InitListToolsReturns(r)
    \/ \E r \in SessionRequests : DeleteSession(r)
    \/ \E r \in SessionRequests : DeleteCleanupReturns(r)

\* The init and delete requests of the gateway.
RegistrySpec == Init /\ [][RegistryNext]_vars

QueryNext ==
    \/ SessionCreated
    \/ \E q \in Queries : PostQuery(q)
    \/ \E q \in Queries : StreamQuery(q)
    \/ \E q \in Queries : TaskStarts(q)
    \/ \E q \in Queries : PutProgress(q)
    \/ \E q \in Queries : RunModelCall(q)
    \/ \E q \in Queries : Relay(q)
    \/ \E q \in Queries : Timeout(q)
    \/ \E q \in Queries : Disconnect(q)

\* The query requests of the gateway, with the init request before them.
QuerySpec == Init /\ [][QueryNext]_vars

\* Under fairness: the generator, waiting in wait_for on a queue that holds
\* an event, is resumed with it.
QueryFairSpec == QuerySpec /\ \A q \in Queries : WF_vars(Relay(q))

TrackerNext ==
    \/ TrackerAddUsage
    \/ TrackerReset
    \/ GetSummary

\* The token tracker of one client.
TrackerSpec == Init /\ [][TrackerNext]_vars

PoolNext ==
    \/ \E t \in ToolTasks : GetClient(t)
    \/ \E t \in ToolTasks : GetReturns(t)
    \/ \E t \in ToolTasks : GetTimesOut(t)
    \/ \E t \in ToolTasks : ReleaseClient(t)
    \/ \E t \in ToolTasks : PutReturns(t)

\* The client pool of the BigQuery server after initialize.
PoolSpec == Init /\ [][PoolNext]_vars

\* Under fairness: the body of a tool call ends, and an awaited get or put
\* returns when the queue has a client or room for one.
PoolFairSpec ==
    /\ PoolSpec
    /\ \A t \in ToolTasks :
        WF_vars(ReleaseClient(t)) /\ WF_vars(PutReturns(t)) /\ WF_vars(GetReturns(t))

\* Under fairness: a caller that polls gets its turn (its sleep ends and the
\* event loop runs it), and a call_tool that is awaited ends (with the reply,
\* an exception, or the timeout of wait_for).
FairSpec ==
    /\ Spec
    /\ \A c \in Callers : WF_vars(Poll(c))
    /\ \A d \in 1..MaxWorkers : WF_vars(DispatchDone(d))

\* ------------------------------------------------------------- the claims

\* Every request ever enqueued, with the caller that holds it.
Enqueued == {<<c, i>> \in Callers \X (1..MaxRequests) : i <= Len(pending[c])}

\* The requests whose result the caller has recorded.
Resolved == {e \in Enqueued : e[2] <= Len(results[e[1]])}

Req(e) == pending[e[1]][e[2]]

Res(e) == results[e[1]][e[2]]

\* C1: correlation-map isolation.  Every result a caller took from the
\* correlation map is the one the dispatcher published for the caller's own
\* request: the reply of the tool to that request's tool name and (sanitized)
\* arguments, or the error of that tool call; never the outcome of another
\* request.
C1_CorrelationIsolation ==
    \A e \in Resolved :
        Res(e).result_type # "timeout" =>
            /\ Req(e).id \in DOMAIN published
            /\ Res(e).success = (published[Req(e).id] = "ok")
            /\ Res(e).success =>
                 Res(e).result =
                     ToolReply(Req(e).tool, SanitizeToolArgs(Req(e).tool, Req(e).args))
            /\ ~Res(e).success => Res(e).error = ErrorMsg(Req(e).tool, "error")

\* Two callers, each with a request for another tool, have both received the
\* result of a call that the tool answered.
C1_Witness ==
    /\ \A c \in Callers : caller_pc[c] = "done" /\ Len(results[c]) = 1
    /\ results[1][1].success /\ results[2][1].success
    /\ pending[1][1].tool # pending[2][1].tool

\* C2: every request whose tool call completed at the tool process has its
\* result delivered to its caller; none is reported as timed out.
C2_AllResultsDelivered ==
    \A e \in Resolved :
        (Req(e).id \in DOMAIN published /\ published[Req(e).id] = "ok") =>
            Res(e).result_type # "timeout"

\* C3: request ids are unique for the lifetime of the client: no two
\* requests ever enqueued carry the same id, and every id handed out lies
\* below next_request_id, so that it is not handed out again.
C3_UniqueRequestIds ==
    /\ \A e1, e2 \in Enqueued : e1 # e2 => Req(e1).id # Req(e2).id
    /\ \A e \in Enqueued : Req(e).id < next_request_id

\* Both callers have enqueued a request, on a client that was reconnected
\* and then cleaned up.
C3_Witness ==
    /\ \A c \in Callers : Len(pending[c]) = 1
    /\ Len(workers) = 2
    /\ cleaned

\* C4: the dispatcher services requests in arrival order.  Requests are
\* numbered in the order they are enqueued, so: tool calls are started in
\* increasing order of request id, and no request still queued is older than
\* one whose call was started.
C4_FifoService ==
    /\ \A i, j \in 1..Len(started) : i < j => started[i] < started[j]
    /\ \A i \in 1..Len(started), k \in 1..Len(request_queue) :
           started[i] < request_queue[k].id

\* The calls of two requests of different callers have been started.
C4_Witness ==
    /\ Len(started) = 2
    /\ \A c \in Callers : Len(pending[c]) = 1

\* C5: at most one dispatcher loop consumes the queue and at most one
\* call_tool is in flight.
C5_SingleDispatcher ==
    /\ Cardinality({d \in Dispatchers : Alive(d)}) <= 1
    /\ Cardinality({d \in Dispatchers : workers[d].pc = "calling"}) <= 1

\* C6: a caller whose polls are used up is told Timeout and returns, and the
\* dispatcher does not wait for a slow call for ever.  A caller submits once,
\* so: from some point on no caller is waiting for a result any more and no
\* dispatcher loop is held in a call.
C6_SubmitReturns ==
    <>[](/\ \A c \in Callers : caller_pc[c] # "poll"
         /\ \A d \in Dispatchers : workers[d].pc # "calling")

\* Caller 1 was told Timeout for request 0, whose call the dispatcher gave up
\* later, and caller 2 has received the reply to request 1 from the same
\* dispatcher.
C6_Witness ==
    /\ Len(workers) = 1
    /\ \A c \in Callers : caller_pc[c] = "done" /\ Len(results[c]) = 1
    /\ pending[1][1].id = 0 /\ results[1][1].result_type = "timeout"
    /\ 0 \in DOMAIN published /\ published[0] = "failed"
    /\ pending[2][1].id = 1 /\ results[2][1].success

\* C7: once a caller was told Timeout for a request, no entry for that
\* request is in the correlation map.
C7_AbandonedResultDiscarded ==
    \A e \in Resolved :
        Res(e).result_type = "timeout" => Req(e).id \notin DOMAIN response_map

\* C8: the dispatcher loop survives a failed call.  A loop ends only by being
\* cancelled, and the failure of a call is stored under the id of its
\* request: it is in the correlation map as a failure, or its caller has
\* taken it from there as an error result.
C8_DispatcherSurvivesFailure ==
    /\ \A d \in Dispatchers : workers[d].pc \in {"idle", "calling", "cancelled"}
    /\ \A e \in Enqueued :
          (Req(e).id \in DOMAIN published /\ published[Req(e).id] = "failed") =>
              \/ /\ Req(e).id \in DOMAIN response_map
                 /\ ~response_map[Req(e).id].success
                 /\ response_map[Req(e).id].error = ErrorMsg(Req(e).tool, "error")
              \/ /\ e \in Resolved
                 /\ Res(e).result_type = "error"

\* The one dispatcher loop has published a failure for request 0 and, after
\* it, the reply to request 1.
C8_Witness ==
    /\ Len(workers) = 1
    /\ started = <<0, 1>>
    /\ DOMAIN published = {0, 1}
    /\ published[0] = "failed" /\ published[1] = "ok"

\* C9: once cleanup has returned, no dispatcher loop of the client is
\* running.
C9_CooperativeShutdown ==
    cleaned => \A d \in Dispatchers : ~Alive(d)

\* C10: when every attempt of a call has failed (primary, fallback model and,
\* with tool declarations, the attempt without them), the exception raised to
\* the caller is the one of the primary attempt, never that of a later tier.
C10_RaisesPrimaryError ==
    gw_pc = "raised" =>
        /\ gw_outcome.kind = "raised"
        /\ Len(gw_attempts) = (IF gw_tools THEN 3 ELSE 2)
        /\ \A i \in 1..Len(gw_attempts) : gw_attempts[i].error # None
        /\ gw_attempts[1].tier = "primary"
        /\ gw_outcome.value = gw_attempts[1].error

\* A call with tool declarations has failed in all three tiers, each request
\* having reached the provider, the later tiers with other exceptions than
\* the primary one.
C10_Witness ==
    /\ gw_pc = "raised"
    /\ Len(gw_attempts) = 3
    /\ gw_attempts[3].requested
    /\ gw_attempts[2].error # gw_attempts[1].error
    /\ gw_attempts[3].error # gw_attempts[1].error
    /\ gw_attempts[3].error # gw_attempts[2].error

\* C11: one call appends exactly one usage entry when a tier succeeds, tagged
\* with that tier, and none when every tier fails.  In particular a call
\* whose primary attempt failed and whose fallback attempt succeeded returns
\* the response of the fallback tier with one entry tagged as a fallback
\* call, and nothing is recorded for the failed primary attempt.
C11_OneUsageEntryPerCall ==
    /\ api_calls = Len(token_log)
    /\ gw_pc \in {"primary", "fallback", "no_tools", "raised"} =>
           Len(token_log) = log_at_call
    /\ gw_pc = "returned" =>
           /\ Len(token_log) = log_at_call + 1
           /\ gw_attempts[Len(gw_attempts)].error = None
           /\ gw_outcome.value = gw_attempts[Len(gw_attempts)].tier
           /\ token_log[Len(token_log)].description =
                  IF gw_outcome.value = "primary" THEN "Primary API Call"
                  ELSE IF gw_outcome.value = "fallback" THEN "Fallback API Call"
                  ELSE "Fallback without tools"
    /\ (gw_pc = "returned" /\ Len(gw_attempts) = 2) =>
           /\ gw_attempts[1].error # None
           /\ gw_outcome.value = "fallback"

\* The second call of a client has returned the response of the fallback
\* tier after its primary attempt failed; the first call had returned too.
C11_Witness ==
    /\ gw_pc = "returned"
    /\ gw_calls = 2
    /\ log_at_call = 1
    /\ Len(gw_attempts) = 2
    /\ gw_attempts[1].error # None
    /\ gw_outcome.value = "fallback"

\* The tiers in the order they are attempted.
TierOrder == <<"primary", "fallback", "no_tools">>

\* C12: the attempts of one call are made in the order primary, fallback
\* model, without tools; each at most once and only after the one before it
\* failed; the third only when tool declarations were supplied.  So a call
\* makes at most 3 provider requests with tools and at most 2 without.
C12_TierOrder ==
    /\ Len(gw_attempts) <= (IF gw_tools THEN 3 ELSE 2)
    /\ \A i \in 1..Len(gw_attempts) :
          /\ gw_attempts[i].tier = TierOrder[i]
          /\ i < Len(gw_attempts) => gw_attempts[i].error # None
    /\ Cardinality({i \in 1..Len(gw_attempts) : gw_attempts[i].requested})
           <= (IF gw_tools THEN 3 ELSE 2)

\* A call with tool declarations was answered by its third request.
C12_Witness ==
    /\ gw_tools
    /\ gw_pc = "returned"
    /\ Len(gw_attempts) = 3
    /\ \A i \in 1..3 : gw_attempts[i].requested

\* C13: the fallback-model attempt is made with the parameters of the
\* primary attempt except for the model; in particular it carries the tool
\* declarations the primary attempt carried.
C13_FallbackSameParameters ==
    Len(gw_attempts) >= 2 =>
        /\ gw_attempts[2].model # gw_attempts[1].model
        /\ gw_attempts[2].tools = gw_attempts[1].tools

\* ------------------------------------------------------------------ C14
\* C14: the steps returned by the parser are, one for one and in the order of
\* the text, the lines that start a numbered item, each step with the number
\* and the description written on its line; gaps, duplicates and numbers out
\* of order change nothing.
C14_OneStepPerNumberedLine ==
    parse_pc = "done" =>
        LET numbered == SelectSeq(lines, StepMatch)
        IN /\ Len(steps) = Len(numbered)
           /\ \A k \in 1..Len(steps) :
                /\ steps[k].number = IntOf(StepNumeral(numbered[k]))
                /\ steps[k].description = StepDescription(numbered[k])

\* C14 witness: a text was parsed whose three numbered lines repeat a number
\* and then go back to a smaller one, and three steps were returned.
C14_Witness ==
    /\ parse_pc = "done"
    /\ Len(steps) = 3
    /\ steps[1].number = steps[2].number
    /\ steps[2].number > steps[3].number

\* ------------------------------------------------------------------ C15
\* C15: the parser raises on no text.
C15_NeverRaises == parse_pc # "raised"

\* ------------------------------------------------------------------ C16
\* C16: every returned step has the tool hint that the first matching
\* pattern, in the order "Use (the) X", "X tool", "X function", "call X",
\* "execute X", captures in its description, and no hint when none matches;
\* the descriptions of the model's lines are listed with the hint each must
\* get.
C16_ToolHint ==
    parse_pc = "done" =>
        \A k \in 1..Len(steps) :
            LET d == steps[k].description
                expected ==
                    CASE d = <<"Use", " ", "the", " ", "list_tables", " ",
                               "tool", " ", "to", " ", "enumerate", " ",
                               "schema">> -> "list_tables"
                      [] d = <<"Use", " ", "the", " ", "read_query", " ",
                               "tool", " ", "to", " ", "fetch", " ", "rows">>
                           -> "read_query"
                      [] d = <<"Call", " ", "describe_table">>
                           -> "describe_table"
                      [] d = <<"Summarize", " ", "findings">> -> None
                      [] d = <<"use", " ", "the", " ", "read_query", " ",
                               "function">> -> "read_query"
                      [] d = <<"Use", " ", "read_query", " ", "to", " ",
                               "call", " ", "list_tables">> -> "read_query"
                      [] d = <<"Then", " ", "execute", " ", "read_query">>
                           -> "read_query"
                      [] d = <<"Call", " ", "the", " ", "read_query", " ",
                               "tool">> -> "read_query"
            IN steps[k].tool = expected

\* C16 witness: the two steps of the example were parsed, with a third step
\* that names no tool.
C16_Witness ==
    /\ parse_pc = "done"
    /\ Len(steps) = 3
    /\ steps[1].tool = "list_tables"
    /\ steps[2].tool = "read_query"
    /\ steps[2].number = 2
    /\ steps[3].tool = None

\* ------------------------------------------------------------------ C17
\* The phases of an analysis run with n steps, in their order.
ExpectedPhases(n) ==
    <<Phase("classification", 0), Phase("question_analysis", 0),
      Phase("strategic_planning", 0)>>
      \o [k \in 1..n |-> Phase("execution", k)]
      \o <<Phase("critical_evaluation", 0), Phase("synthesis", 0)>>

IsPrefix(a, b) == Len(a) <= Len(b) /\ \A k \in 1..Len(a) : a[k] = b[k]

\* The run did not take the casual or the help branch.
AnalysisRun ==
    /\ o_pc \notin {"casual", "help"}
    /\ \A k \in 1..Len(phases) :
         phases[k].phase \notin {"casual_reply", "help_reply"}

\* C17: the phases an analysis run has entered are always the beginning of
\* classification, question analysis, strategic planning, execution of
\* steps 1..N, critical evaluation, synthesis; a run that is done has entered
\* all of them and has made exactly 2N+5 model calls.
C17_PhaseOrder ==
    AnalysisRun =>
        /\ IsPrefix(phases, ExpectedPhases(total_steps))
        /\ o_pc = "done" =>
             /\ phases = ExpectedPhases(total_steps)
             /\ model_calls = 2 * total_steps + 5

\* C17 witness: a run with a plan of two steps is done after 9 model calls.
C17_Witness ==
    /\ o_pc = "done"
    /\ AnalysisRun
    /\ total_steps = 2
    /\ model_calls = 9

\* ------------------------------------------------------------------ C18
\* C18: when the model call for the next step is about to be made (and ever
\* after the last step), every tool request of the steps so far has a result,
\* and execution_context holds, step by step in plan order, the results and
\* the insights of each of them; and tool requests are enqueued only when no
\* request is without a result.
C18_SequentialSteps ==
    /\ [](o_pc \in {"exec", "evaluation", "synthesis", "done"} /\ AnalysisRun =>
            /\ \A k \in 1..Len(step_results) : step_results[k] # "pending"
            /\ Len(execution_context) >= 1 + 2 * step_index
            /\ \A k \in 1..step_index :
                 /\ execution_context[2 * k][1] = "STEP RESULTS"
                 /\ execution_context[2 * k][2] = k
                 /\ execution_context[2 * k + 1][1] = "STEP INSIGHTS"
                 /\ execution_context[2 * k + 1][2] = k
            /\ step_index >= 1 =>
                 Len(execution_context[2 * step_index][3]) = Len(step_results))
    /\ [][tool_requests' > tool_requests =>
            /\ \A k \in 1..Len(step_results) : step_results[k] # "pending"
            /\ Len(execution_context) = 1 + 2 * step_index]_vars

\* C18 witness: the second step's tool requests are enqueued after the first
\* step's two requests were resolved, one of them by a timeout.
C18_Witness ==
    /\ o_pc = "tools"
    /\ step_index = 1
    /\ Len(step_results) = 2
    /\ step_results[2] = "pending"
    /\ "Error from tool: Request timed out" \in
         {execution_context[2][3][k] : k \in 1..Len(execution_context[2][3])}

\* ------------------------------------------------------------------ C19
\* C19: after a classification text that contains CASUAL_CONVERSATION or
\* HELP_REQUEST the run makes one more model call and enqueues no tool
\* request, and when it is done the reply is the last entry of the history
\* and the value returned; after any other text the run goes on with the
\* question analysis.
C19_CasualAndHelp ==
    classification # <<>> =>
        IF \/ Contains(classification, "CASUAL_CONVERSATION")
           \/ Contains(classification, "HELP_REQUEST")
        THEN /\ o_pc \in {"casual", "help", "done", "failed"}
             /\ tool_requests = 0
             /\ model_calls = IF o_pc \in {"casual", "help"} THEN 1 ELSE 2
             /\ o_pc = "done" =>
                  /\ o_outcome.kind = "return"
                  /\ o_outcome.value \in {"casual_reply", "help_reply"}
                  /\ conversation_history[Len(conversation_history)] =
                         Message("assistant", o_outcome.value)
        ELSE /\ o_pc \notin {"casual", "help"}
             /\ Len(phases) >= 2 => phases[2] = Phase("question_analysis", 0)
             /\ o_pc = "done" => o_outcome.value = "final_analysis"

\* C19 witness: a query classified as a help request was answered.
C19_Witness ==
    /\ o_pc = "done"
    /\ classification = <<"HELP_REQUEST">>
    /\ model_calls = 2
    /\ o_outcome = [kind |-> "return", value |-> "help_reply"]

\* ------------------------------------------------------------------ C20
\* A tool request of the current step failed or timed out.
ToolFailed ==
    /\ o_pc = "tools"
    /\ \E k \in 1..Len(step_results) : step_results[k] \in {"error", "timeout"}

\* C20: the results of a step are in execution_context with an error text
\* for each request that failed or timed out; and once a tool request has
\* failed or timed out the run goes on to the synthesis, unless a model call
\* raises.
C20_ToolFailureNeverAborts ==
    /\ [](o_pc \in {"exec", "evaluation", "synthesis", "done"} /\ step_index >= 1 =>
            LET texts == execution_context[2 * step_index][3]
            IN \A k \in 1..Len(step_results) :
                 /\ step_results[k] = "error" =>
                      texts[k] = "Error from tool: call failed"
                 /\ step_results[k] = "timeout" =>
                      texts[k] = "Error from tool: Request timed out"
                 /\ step_results[k] = "success" =>
                      texts[k] = "Result from tool")
    /\ [](ToolFailed =>
            <>(\/ model_failed
               \/ \E k \in 1..Len(phases) : phases[k].phase = "synthesis"))

\* C20 witness: a run whose first step had a failed and a timed-out request
\* is done.
C20_Witness ==
    /\ o_pc = "done"
    /\ total_steps = 1
    /\ step_results = <<"error", "timeout">>
    /\ execution_context[2][3] =
         <<"Error from tool: call failed", "Error from tool: Request timed out">>

\* ------------------------------------------------------------------ C22
\* The planning call returned and its text was parsed to an empty plan.
EmptyPlan ==
    /\ AnalysisRun
    /\ total_steps = 0
    /\ execution_context # <<>>

\* C22: after a plan of zero steps the run goes from the planning directly
\* to the synthesis, with no call in between and nothing but the analysis and
\* the plan in the context.
C22_DirectlyToSynthesis ==
    EmptyPlan /\ Len(phases) >= 4 =>
        /\ phases[4] = Phase("synthesis", 0)
        /\ Len(execution_context) = 1

\* C22 amended: after a plan of zero steps the run is not ended: it makes no
\* execution and no insight call and enqueues no tool request, goes from the
\* planning to the critical evaluation and from there to the synthesis, and
\* ends with an exception only if one of these two calls raises; the context
\* of the synthesis holds the analysis with the plan, and the evaluation.
C22_EmptyPlanEvaluated ==
    EmptyPlan =>
        /\ o_pc \in {"evaluation", "synthesis", "done", "failed"}
        /\ o_pc = "failed" => model_failed
        /\ tool_requests = 0
        /\ step_results = <<>>
        /\ IsPrefix(phases, ExpectedPhases(0))
        /\ model_calls = Len(phases)
        /\ o_pc \in {"synthesis", "done"} =>
             execution_context =
               <<<<"ANALYSIS PLAN", 0, <<>>>>, <<"CRITICAL EVALUATION", 0, <<>>>>>>

\* C22 witness: a run with an empty plan is done after five model calls.
C22_Witness ==
    /\ EmptyPlan
    /\ o_pc = "done"
    /\ model_calls = 5
    /\ phases[4] = Phase("critical_evaluation", 0)

\* ------------------------------------------------------------------ C24
\* C24: once manage_context has been applied to the history of a query, the
\* history is within the limit (a longer one was replaced by a shorter one,
\* a shorter one was left alone) and the call goes on.
C24_LongHistoryPruned ==
    o_pc # "idle" /\ model_calls = 0 =>
        /\ Len(conversation_history) <= HistoryLimit
        /\ o_outcome.kind # "raise"

\* ------------------------------------------------------------------ C23
\* C23: when a process_query call returns, the last entry of the history is
\* the assistant entry with the returned text, and the entry before it is
\* the user entry with the query of that call.
C23_ReplyFollowsItsQuery ==
    [][\A c \in Calls :
          q_pc[c] # "returned" /\ q_pc'[c] = "returned" =>
              LET h == conversation_history' IN
              /\ Len(h) >= 2
              /\ h[Len(h)] = Message("assistant", q_reply'[c])
              /\ h[Len(h) - 1] = Message("user", q_query'[c])]_vars

\* ------------------------------------------------------------------ C25
\* C25: every client that is connected and was not torn down is the client
\* registered under its session id, so a session id has at most one live
\* client.
C25_OneLiveClientPerSession ==
    \A k \in 1..Len(clients) :
        clients[k].state = "connected" =>
            /\ clients[k].session_id \in DOMAIN active_sessions
            /\ active_sessions[clients[k].session_id] = k

\* ------------------------------------------------------------------ C26
\* C26: when an init request is answered with status error, no session is
\* registered under its id at that moment.
C26_FailedInitRegistersNothing ==
    [][\A r \in SessionRequests :
          /\ r_pc[r] # "done" /\ r_pc'[r] = "done"
          /\ r_kind'[r] = "init" /\ r_response'[r] = "error"
          => r_session'[r] \notin DOMAIN active_sessions']_vars

\* A delete request ends in this step.
DeleteEnds(r) ==
    r_pc[r] # "done" /\ r_pc'[r] = "done" /\ r_kind'[r] = "delete"

\* ------------------------------------------------------------------ C27
\* C27: every delete request returns success and leaves its id
\* unregistered; if the id was not registered when the request came, both
\* maps are left as they were.
C27_DeleteIdempotent ==
    [][\A r \in SessionRequests :
          DeleteEnds(r) =>
              /\ r_response'[r] = "success"
              /\ r_session'[r] \notin DOMAIN active_sessions'
              /\ r_pc[r] = "idle" =>
                     /\ active_sessions' = active_sessions
                     /\ session_types' = session_types]_vars

\* ------------------------------------------------------------------ C28
\* C28: a delete request whose cleanup raised returns success, and its id
\* is in neither map afterwards.
C28_DeleteBestEffort ==
    [][\A r \in SessionRequests :
          DeleteEnds(r) /\ r_cleanup'[r] = "raise" =>
              /\ r_response'[r] = "success"
              /\ r_session'[r] \notin DOMAIN active_sessions'
              /\ r_session'[r] \notin DOMAIN session_types']_vars

\* ------------------------------------------------------------------ C29
\* C29: no delete request fails on an entry another request removed, and
\* once every request that was received has been answered the registry is
\* as some sequential order leaves it: every client that is still connected
\* is registered under its id.
C29_Serialized ==
    /\ \A r \in SessionRequests : r_response[r] # "KeyError"
    /\ (\A r \in SessionRequests : r_pc[r] \in {"idle", "done"}) =>
           \A k \in 1..Len(clients) :
               clients[k].state = "connected" =>
                   /\ clients[k].session_id \in DOMAIN active_sessions
                   /\ active_sessions[clients[k].session_id] = k

\* ------------------------------------------------------------------ C21
\* The events of a sequence that have the given type.
OfType(events, type) == SelectSeq(events, LAMBDA e : e.type = type)

\* C21: once a model call of the process_query call of a request has raised,
\* the call makes no further model call and stays failed; the POST is
\* answered with status error and a message; the stream has no final event
\* queued or relayed, relays at most one error event, and has relayed
\* exactly one when it has ended.
C21_FailureEndsTheInvocation ==
    /\ [][\A q \in Queries :
            process_task[q] = "raised" =>
                process_task'[q] = "raised" /\ calls_made'[q] = calls_made[q]]_vars
    /\ [](\A q \in Queries :
            process_task[q] = "raised" =>
                IF e_kind[q] = "post"
                THEN /\ e_pc[q] = "responded"
                     /\ e_response[q].status = "error"
                     /\ e_response[q].message # None
                ELSE /\ OfType(relayed[q] \o progress_queue[q], "final") = <<>>
                     /\ Len(OfType(relayed[q], "error")) <= 1
                     /\ e_pc[q] = "ended" => Len(OfType(relayed[q], "error")) = 1)

\* A POST and a stream whose process_query call raised, the stream after a
\* model call that returned, both answered.
C21_Witness ==
    \E p, q \in Queries :
        /\ e_kind[p] = "post" /\ process_task[p] = "raised"
        /\ e_pc[p] = "responded"
        /\ e_kind[q] = "stream" /\ process_task[q] = "raised"
        /\ calls_made[q] > 0
        /\ e_pc[q] = "ended"
        /\ OfType(relayed[q], "error") # <<>>

\* ------------------------------------------------------------------ C30
\* A request on a session that was not registered when it arrived, after
\* its handler has answered.
Refused(q) ==
    \/ e_kind[q] = "post" /\ e_response[q].status = "404"
    \/ /\ e_kind[q] = "stream"
       /\ relayed[q] # <<>>
       /\ relayed[q][1] = Event("error", "Session not found", q)

\* C30: a request that arrives for a session id that is not registered is
\* answered at once, a POST with 404 'Session not found' and a stream with
\* one error event and its end; no process_query call is made for it and
\* no task created, and nothing more is relayed, whatever happens later.
C30_UnregisteredNeverStarts ==
    /\ [][\A q \in Queries :
            /\ e_pc[q] = "idle" /\ e_pc'[q] # "idle"
            /\ e_session'[q] \notin DOMAIN active_sessions
            => /\ Refused(q)'
               /\ e_pc'[q] = IF e_kind'[q] = "post" THEN "responded" ELSE "ended"]_vars
    /\ [](\A q \in Queries :
            Refused(q) =>
                /\ process_task[q] = "none"
                /\ calls_made[q] = 0
                /\ consecutive_timeouts[q] = 0
                /\ progress_queue[q] = <<>>
                /\ e_kind[q] = "stream" => Len(relayed[q]) = 1 /\ e_pc[q] = "ended")

\* A POST and a stream on an id that is not registered, both refused, while
\* another session is registered.
C30_Witness ==
    /\ active_sessions # << >>
    /\ \E p, q \in Queries :
        /\ e_kind[p] = "post" /\ e_kind[q] = "stream"
        /\ e_session[p] \notin DOMAIN active_sessions /\ Refused(p)
        /\ e_session[q] \notin DOMAIN active_sessions /\ Refused(q)

\* ------------------------------------------------------------------ C38
\* C38: manage_context never raises, so no process_query call fails in
\* pruning: none ends with the TypeError of manage_context, however many
\* queries the session has answered before.
C38_PruningNeverFails == o_outcome.value # "TypeError"

\* ------------------------------------------------------------------ C35
RECURSIVE SumInput(_)
SumInput(calls) ==
    IF calls = <<>> THEN 0 ELSE calls[1].input + SumInput(Tail(calls))

RECURSIVE SumOutput(_)
SumOutput(calls) ==
    IF calls = <<>> THEN 0 ELSE calls[1].output + SumOutput(Tail(calls))

\* C35: the log holds one entry per add_usage call since the last reset, in
\* call order and with the counts of that call; api_calls is its length and
\* the totals are the sums over the calls; a summary shows the totals and
\* the last min(10, n) entries of the log in order.
C35_AppendOnlyUsageLog ==
    LET log == token_tracker.token_log
        n == Len(log)
    IN
    /\ n = Len(usage_calls)
    /\ \A i \in 1..n :
           log[i] = UsageEntry(usage_calls[i].input, usage_calls[i].output, "API call")
    /\ token_tracker.api_calls = n
    /\ token_tracker.total_input_tokens = SumInput(usage_calls)
    /\ token_tracker.total_output_tokens = SumOutput(usage_calls)
    /\ summary # <<>> =>
           LET shown == summary[1].token_history
               k == IF n < SummaryEntries THEN n ELSE SummaryEntries
           IN
           /\ Len(shown) = k
           /\ \A j \in 1..k : shown[j] = log[n - k + j]
           /\ summary[1].api_calls = n
           /\ summary[1].input_tokens = SumInput(usage_calls)
           /\ summary[1].output_tokens = SumOutput(usage_calls)

\* A summary of a log of more than ten entries that are not all alike.
C35_Witness ==
    /\ summary # <<>>
    /\ Len(token_tracker.token_log) > SummaryEntries
    /\ token_tracker.token_log[1] # token_tracker.token_log[Len(token_tracker.token_log)]

\* ------------------------------------------------------------------ C39
\* The tool calls that hold a client.
CheckedOut == {t \in ToolTasks : t_client[t] # NoClient}

\* C39: at most max_connections clients are checked out at a time, and at
\* most max_connections clients exist (no client is ever closed, so the
\* clients that exist are those constructed).
C39_PoolBounded ==
    /\ Cardinality(CheckedOut) <= max_connections
    /\ constructed <= max_connections

\* ------------------------------------------------------------------ C40
\* C40: a tool call that holds a client eventually leaves its context: its
\* release_client call returns.
C40_ReleaseReturns ==
    \A t \in ToolTasks : (t_pc[t] \in {"using", "put"}) ~> (t_pc[t] = "done")

\* ------------------------------------------------------------------ C37
\* The requests whose process_query call made an event relayed on the
\* stream of q.
RelayedFrom(q) == {relayed[q][i].from : i \in DOMAIN relayed[q]}

\* C37: with two streams on one session, an event made by the run of one
\* stream is relayed on that stream only: no stream relays an event that
\* the run of another stream made.
C37_StreamIsolation ==
    \A q \in Queries : \A p \in RelayedFrom(q) :
        e_kind[p] = "stream" => p = q

\* ------------------------------------------------------------------ C36
\* The event at place i of the stream of q is the final or error event of
\* the run of q.
EndsRun(q, i) ==
    /\ relayed[q][i].type \in {"final", "error"}
    /\ relayed[q][i].from = q

\* C36: on a stream the final or error event of its run comes after every
\* progress event the run reported: no progress event of the run of q is
\* relayed after the final or error event of that run.
C36_ProgressBeforeFinal ==
    \A q \in Queries : \A i, j \in DOMAIN relayed[q] :
        (i < j /\ EndsRun(q, i)) =>
            ~(relayed[q][j].type = "progress" /\ relayed[q][j].from = q)

\* ------------------------------------------------------------------ C34
\* C34: once a stream is over, by the end of the relay loop or because the
\* client went away, its process_query task is not left pending or
\* running: it has returned, raised or been cancelled (or was never
\* created, for a session that is not registered).
C34_NoTaskOutlivesItsStream ==
    \A q \in Queries :
        (e_kind[q] = "stream" /\ e_pc[q] \in {"ended", "closed"}) =>
            process_task[q] \notin {"created", "running"}

\* ------------------------------------------------------------------ C32
\* The stream of q takes a step in which a wait times out.
WaitTimedOut(q) == Len(keepalives'[q]) > Len(keepalives[q])

\* C32: a wait that times out emits one keepalive event, and the k-th
\* keepalive after the event relayed last carries the counter k, so the
\* counter starts again from 1 after every relayed event; and a stream
\* that ends at a timeout has a task that has finished.
C32_KeepaliveCountsTimeouts ==
    /\ [](\A q \in Queries : \A k \in DOMAIN keepalives[q] :
            /\ keepalives[q][k].type = "keepalive"
            /\ keepalives[q][k].consecutive_timeouts = k)
    /\ [][\A q \in Queries :
            WaitTimedOut(q) =>
                /\ Len(keepalives'[q]) = Len(keepalives[q]) + 1
                /\ e_pc'[q] = "ended" => TaskDone(process_task[q])]_vars

\* A stream that has relayed an event from its queue and then had
\* max_consecutive_timeouts waits time out, the task still running: it goes
\* on streaming, the last keepalive carrying max_consecutive_timeouts.
C32_Witness ==
    \E q \in Queries :
        /\ e_pc[q] = "streaming"
        /\ process_task[q] = "running"
        /\ Len(relayed[q]) >= 2
        /\ Len(keepalives[q]) = max_consecutive_timeouts
        /\ keepalives[q][max_consecutive_timeouts].consecutive_timeouts
               = max_consecutive_timeouts

\* ------------------------------------------------------------------ C31
\* The stream of q has relayed the final or error event of its run.
EndRelayed(q, events) ==
    \E i \in DOMAIN events :
        events[i].type \in {"final", "error"} /\ events[i].from = q

\* The stream of q stops in this step by the break of the forced timeout.
ForcedTimeout(q) ==
    /\ WaitTimedOut(q)
    /\ consecutive_timeouts'[q] >= max_consecutive_timeouts
    /\ processing_complete[q]

\* C31 as stated: a stream whose task has finished and that ends in any
\* way other than the forced timeout has, when it ends, relayed the final
\* or error event of its task and has an empty queue.
C31_EndsAfterFinalRelayed ==
    [][\A q \in Queries :
        (processing_complete[q] /\ e_pc[q] = "streaming"
            /\ e_pc'[q] \in {"ended", "closed"} /\ ~ForcedTimeout(q)) =>
                EndRelayed(q, relayed'[q]) /\ progress_queue'[q] = <<>>]_vars

\* C31 amended: a stream whose task has finished and that the generator
\* ends, other than by the forced timeout, has relayed the final or error
\* event of its task and has an empty queue; and from some time on every
\* stream whose task has finished has ended or lost its client (a finished
\* task stays finished and an ended stream stays ended, so this is: once
\* the task has finished, the stream eventually ends).
C31_LoopEndsAfterFinalRelayed ==
    /\ [][\A q \in Queries :
            (processing_complete[q] /\ e_pc[q] = "streaming"
                /\ e_pc'[q] = "ended" /\ ~ForcedTimeout(q)) =>
                EndRelayed(q, relayed'[q]) /\ progress_queue'[q] = <<>>]_vars
    /\ <>[](\A q \in Queries :
            (e_kind[q] = "stream" /\ TaskDone(process_task[q]))
                => e_pc[q] \in {"ended", "closed"})

\* A stream the generator ended after its task returned: it relayed a
\* progress event of the run and the final event, and its queue is empty.
C31_Witness ==
    \E q \in Queries :
        /\ e_pc[q] = "ended"
        /\ process_task[q] = "returned"
        /\ Len(relayed[q]) >= 3
        /\ EndRelayed(q, relayed[q])
        /\ progress_queue[q] = <<>>

====
